---- MODULE Spec2Model ----
(***************************************************************************)
(* The AT command engine of package modem: Modem.Loop with its scanning    *)
(* goroutine, Modem.exec (submit), Modem.SendSMS, Modem.Close, and the     *)
(* token classifier at.Classify.  A modem and its Transport are the        *)
(* environment.  Strings are sequences of one-character strings.           *)
(***************************************************************************)
EXTENDS Integers, Sequences, FiniteSets, TLC

\* ------------------------------------------------------------- bounds
\* characters in a message handed to SendSMS
MaxMsg == 3
\* pieces in an input of the Scanner
MaxParts == 2
\* lines the modem says during New before the line that ends its answer
MaxAns == 1
\* waitForSIMReady: maxRetries (30s / 500ms in the code)
MaxRetries == 2
\* requests a caller may issue one after the other
MaxCalls == 1
\* non-URC tokens the modem may emit in one run
MaxTok == 2
\* URC tokens the modem may emit in one run of the general scenario
MaxUrc == 1
\* tokens that may wait unread in the Transport
MaxRx == 1
\* URC tokens the modem emits beyond the sink's capacity in the flood scenario
UrcOver == 1

\* ------------------------------------------------------------- constants
\* make(chan string, 100)
UrcCap == 100
\* make(chan string, 10)
TokensCap == 10
\* make(chan error, 1)
ScanErrsCap == 1
\* make(chan commandResponse, 1)
RespCap == 1

Callers == {1, 2}
Loops == {1, 2}
Closers == {1, 2}
\* every exec creates one commandRequest; SendSMS calls exec twice
MaxReq == Cardinality(Callers) * MaxCalls * 2
Reqs == 1..MaxReq

\* ------------------------------------------------------------- package at
CRLF == <<"\r", "\n">>
Prompt == <<">", " ">>
\* the byte 0x1A, written here as the one character "SUB"
CtrlZ == <<"SUB">>
OK == <<"O", "K">>
ERROR == <<"E", "R", "R", "O", "R">>
NoCarrier == <<"N", "O", " ", "C", "A", "R", "R", "I", "E", "R">>
NoDialtone == <<"N", "O", " ", "D", "I", "A", "L", "T", "O", "N", "E">>
Busy == <<"B", "U", "S", "Y">>
NoAnswer == <<"N", "O", " ", "A", "N", "S", "W", "E", "R">>
CmeError == <<"+", "C", "M", "E", " ", "E", "R", "R", "O", "R", ":">>
CmsError == <<"+", "C", "M", "S", " ", "E", "R", "R", "O", "R", ":">>
UrcNewMsg == <<"+", "C", "M", "T", "I", ":">>
UrcCall == <<"R", "I", "N", "G">>

\* strings.HasPrefix
HasPrefix(s, p) == Len(s) >= Len(p) /\ SubSeq(s, 1, Len(p)) = p

\* bytes.Index: the place of the first p in s, counted from 0, or -1
Index(s, p) ==
    LET at == {i \in 0..(Len(s) - Len(p)) : SubSeq(s, i + 1, i + Len(p)) = p}
    IN  IF at = {} THEN -1 ELSE CHOOSE i \in at : \A j \in at : i <= j

\* strings.Contains
Contains(s, p) ==
    \E i \in 0..(Len(s) - Len(p)) : SubSeq(s, i + 1, i + Len(p)) = p

\* a Classify that takes +CMTI: for a URC only when nothing follows it
ClassifyUrcExact(line) ==
    IF line = Prompt THEN "TypePrompt"
    ELSE IF line \in {OK, ERROR, NoCarrier, NoDialtone, Busy, NoAnswer}
        THEN "TypeFinal"
    ELSE IF HasPrefix(line, CmeError) \/ HasPrefix(line, CmsError)
        THEN "TypeFinal"
    ELSE IF line = UrcNewMsg \/ line = UrcCall THEN "TypeURC"
    ELSE "TypeData"

\* at.Classify
Classify(line) ==
    IF line = Prompt THEN "TypePrompt"
    ELSE IF line \in {OK, ERROR, NoCarrier, NoDialtone, Busy, NoAnswer}
        THEN "TypeFinal"
    ELSE IF HasPrefix(line, CmeError) \/ HasPrefix(line, CmsError)
        THEN "TypeFinal"
    ELSE IF HasPrefix(line, UrcNewMsg) \/ line = UrcCall THEN "TypeURC"
    ELSE "TypeData"

\* a Splitter that takes the prompt for the start of a line
SplitterNoPrompt(data, atEOF) ==
    IF atEOF /\ data = <<>>
        THEN [advance |-> 0, token |-> <<>>, has |-> FALSE]
    ELSE IF Index(data, CRLF) >= 0
        THEN [advance |-> Index(data, CRLF) + Len(CRLF),
              token |-> SubSeq(data, 1, Index(data, CRLF)), has |-> TRUE]
    ELSE IF atEOF
        THEN [advance |-> Len(data), token |-> data, has |-> TRUE]
    ELSE [advance |-> 0, token |-> <<>>, has |-> FALSE]

\* a Splitter that does not wait for the end of a line
SplitterEager(data, atEOF) ==
    IF atEOF /\ data = <<>>
        THEN [advance |-> 0, token |-> <<>>, has |-> FALSE]
    ELSE IF HasPrefix(data, Prompt)
        THEN [advance |-> Len(Prompt), token |-> Prompt, has |-> TRUE]
    ELSE IF Index(data, CRLF) >= 0
        THEN [advance |-> Index(data, CRLF) + Len(CRLF),
              token |-> SubSeq(data, 1, Index(data, CRLF)), has |-> TRUE]
    ELSE [advance |-> Len(data), token |-> data, has |-> TRUE]

\* a Splitter that takes a ">" with nothing after it in the buffer for the prompt
SplitterHalfPrompt(data, atEOF) ==
    IF atEOF /\ data = <<>>
        THEN [advance |-> 0, token |-> <<>>, has |-> FALSE]
    ELSE IF HasPrefix(data, Prompt) \/ data = <<">">>
        THEN [advance |-> IF Len(data) < Len(Prompt) THEN Len(data) ELSE Len(Prompt),
              token |-> IF Len(data) < Len(Prompt) THEN data ELSE Prompt,
              has |-> TRUE]
    ELSE IF Index(data, CRLF) >= 0
        THEN [advance |-> Index(data, CRLF) + Len(CRLF),
              token |-> SubSeq(data, 1, Index(data, CRLF)), has |-> TRUE]
    ELSE IF atEOF
        THEN [advance |-> Len(data), token |-> data, has |-> TRUE]
    ELSE [advance |-> 0, token |-> <<>>, has |-> FALSE]

\* at.Splitter: advance, token, and whether token is not nil
Splitter(data, atEOF) ==
    IF atEOF /\ data = <<>>
        THEN [advance |-> 0, token |-> <<>>, has |-> FALSE]
    ELSE IF HasPrefix(data, Prompt)
        THEN [advance |-> Len(Prompt), token |-> Prompt, has |-> TRUE]
    ELSE IF Index(data, CRLF) >= 0
        THEN [advance |-> Index(data, CRLF) + Len(CRLF),
              token |-> SubSeq(data, 1, Index(data, CRLF)), has |-> TRUE]
    ELSE IF atEOF
        THEN [advance |-> Len(data), token |-> data, has |-> TRUE]
    ELSE [advance |-> 0, token |-> <<>>, has |-> FALSE]

\* strings.Join(lines, "\n")
RECURSIVE Join(_)
Join(ls) ==
    IF ls = <<>> THEN <<>>
    ELSE IF Len(ls) = 1 THEN ls[1]
    ELSE ls[1] \o <<"\n">> \o Join(Tail(ls))

SimReady == <<"+", "C", "P", "I", "N", ":", " ", "R", "E", "A", "D", "Y">>
SimPin == <<"+", "C", "P", "I", "N", ":", " ", "S", "I", "M", " ", "P", "I", "N">>

\* ------------------------------------------------------------- the modem's words
\* +CPIN: SIM PIN2
SimPin2Text == SimPin \o <<"2">>
\* +CPIN: SIM PUK
SimPukText == <<"+", "C", "P", "I", "N", ":", " ", "S", "I", "M", " ", "P", "U", "K">>
Digit(d) == CASE d = 0 -> "0" [] d = 1 -> "1" [] d = 2 -> "2" [] d = 3 -> "3"
              [] d = 4 -> "4" [] d = 5 -> "5" [] d = 6 -> "6" [] d = 7 -> "7"
              [] d = 8 -> "8" [] OTHER -> "9"

RECURSIVE Dec(_)
Dec(n) == IF n < 10 THEN <<Digit(n)>> ELSE Dec(n \div 10) \o <<Digit(n % 10)>>

\* +CMTI: "SM",<n>: the new-message notification for storage index n
UrcText(n) == UrcNewMsg \o <<" ", "\"", "S", "M", "\"", ",">> \o Dec(n)
\* +CMGS: 123
DataText == <<"+", "C", "M", "G", "S", ":", " ", "1", "2", "3">>
\* +CMS ERROR: 500
CmsErrorText == CmsError \o <<" ", "5", "0", "0">>
\* a line of data with the prompt marker inside it
MarkerText == <<"1", " ", ">", " ", "0">>
\* +CME ERROR: 30
CmeErrorText == CmeError \o <<" ", "3", "0">>
\* +CSQ: 15,99
CsqText == <<"+", "C", "S", "Q", ":", " ", "1", "5", ",", "9", "9">>
\* what the modem may say in answer to a command; the empty line is the blank
\* line a modem puts between the lines of an answer
ReplyTexts == {<<>>, DataText, OK, CmsErrorText, Prompt}

\* a token on its way from the modem to the Loop: its text, and the request
\* the modem said it in answer to (0: unsolicited); re is not visible to the code
Tok(text, re) == [tok |-> text, re |-> re]

\* an error value: nil, or its kind with the text it carries
Err(kind, text) == [kind |-> kind, text |-> text, wrap |-> "none"]
\* fmt.Errorf("<w>: %w", e)
Wrap(w, e) == [e EXCEPT !.wrap = w]
Nil == Err("nil", <<>>)
\* err.Error(): errors.New(token) reads as the token, fmt.Errorf("<w>: %w", e) as
\* w, a colon, a space and e's text; a fixed message stands as one symbol
ErrorText(e) ==
    LET own == IF e.kind = "token" THEN e.text ELSE <<e.kind>>
    IN  IF e.wrap = "none" THEN own ELSE <<e.wrap, ":", " ">> \o own

\* commandResponse{response, err}; src: the requests the modem answered with the
\* lines of response, in order
Resp(lines, err) ==
    [response |-> Join([i \in 1..Len(lines) |-> lines[i].tok]),
     err |-> err,
     src |-> [i \in 1..Len(lines) |-> lines[i].re]]

\* ------------------------------------------------------------- state
VARIABLES
    \* Modem fields
    closed,         \* m.closed
    loopRunning,    \* m.loopRunning
    hasTransport,   \* m.transport != nil
    loopCtxDone,    \* m.loopCtx is cancelled (m.loopCancel was called)
    urcChan,        \* m.urcChan: the texts waiting in it
    urcBusy,        \* what became of the URCs that came while a command was
                    \* outstanding: a subset of {"sent", "dropped"}
    \* the Transport and the modem behind it
    trCloses,       \* calls of Transport.Close so far
    rdState,        \* what Read gives once rx is empty: "open" (blocks), "eof", "err"
    rx,             \* tokens the modem sent that no scanner has read yet
    modemQ,         \* requests written to the modem and not yet answered by a terminal
    wire,           \* calls of Transport.Write so far: the request and whether it succeeded
    tokLeft,        \* non-URC tokens the modem may still emit
    urcLeft,        \* URC tokens the modem may still emit
    urcSent,        \* URC tokens the modem has emitted
    said,           \* every token the modem has sent, in order
    \* the context handed to Loop
    ctxDone,
    loopCallsLeft,  \* calls of Loop still to be made
    deadlines,      \* the kinds of context the callers use: TRUE can become done
    \* one record per call of Loop
    lpc,            \* "idle", "set" (passed the loopRunning test), "select", "done"
    lret,           \* what the call returned
    cur,            \* currentCmd: a request, or 0 for nil
    lines,          \* currentLines
    tokens,         \* the tokens channel
    tokClosed,      \* close(tokens) has run
    scanErrs,       \* the scanErrs channel
    spc,            \* the scanning goroutine: "off", "scan", "send", "senderr", "done"
    held,           \* the token the scanning goroutine is sending
    \* one record per caller of exec / SendSMS
    cpc,            \* "idle", "send" (first select of exec), "wait" (second select)
    cop,            \* "exec" or "sms"
    cphase,         \* SendSMS: 1 for the AT+CMGS exec, 2 for the body exec
    creq,           \* the commandRequest of the running exec
    cdl,            \* the caller's context can become done (deadline or cancel)
    cdone,          \* the caller's context is done
    cret,           \* what the last call returned
    callsLeft,
    \* commandRequests
    nextReq,
    rinfo,          \* per request: its caller, its command, the Loop call that took it,
                    \* and the requests that had timed out when it was made
    respChan,       \* per request: respChan
    nres,           \* per request: commandResponses the Loop has put on respChan
    rret,           \* per request: what exec returned for it
    \* callers of Close
    kpc,            \* "idle", "set" (passed the closed test), "done"
    kret,
    \* ConfigBuilder.Build and New
    bcfg,           \* the Config: its dialer ("none", "works", "fails") and whether
                    \* a SIM PIN is set
    bbuilt,         \* what Build returned
    bpc,            \* "build", "new", the command init sends next, "wait"
                    \* (waitForSIMReady's select), "returned"
    bdone,          \* the context init runs under is done
    bretries,       \* waitForSIMReady: retries
    bdials,         \* calls of Dialer.Dial so far
    bcloses,        \* calls of Transport.Close New has made
    bex,            \* the calls of execDirect so far: the command, whether its
                    \* write succeeded, whether a Final or Prompt token ended
                    \* it, the error it returned and, for an AT+CPIN? that
                    \* returned no error, what init found in its text
    bsim,           \* init: simStatus, the text of the first AT+CPIN?
    bret,           \* what New returned
    \* a bufio.Scanner that splits an input of its own with at.Splitter
    sparts,         \* the pieces the input was made of: segments (each followed
                    \* by CRLF) and prompt markers
    stail,          \* what follows the pieces, with no CRLF after it
    srest,          \* the bytes not read yet
    sbuf,           \* the bytes read and not consumed
    seof,           \* the reader has reported the end of the input
    sneed,          \* the last call of Splitter asked for more data
    sdone,          \* Scan has returned false
    stoks,          \* the tokens so far
    sused,          \* the sum of the advances so far
    slast,          \* the last call of Splitter: data, atEOF, and what it returned
    \* a call of at.Classify
    ctok,           \* the token
    ckind,          \* the kind returned, "none" before the call
    \* a call of SerialDialer.Dial
    dname,          \* d.PortName
    dmode,          \* d.Mode != nil
    dctx,           \* ctx: "nil", "background", or a context with a cancel
                    \* function ("live", "canceled") or a deadline ("timed",
                    \* "expired")
    dwas,           \* ctx as it was when Dial was called, "none" before that
    dpc,            \* Dial: "start", "select", "returned"
    dopc,           \* the goroutine that opens the port: "off", "open", "done"
    dch,            \* ch: the results in it (its capacity is 1)
    dkpc,           \* the goroutine that drains ch: "off", "recv", "done"
    dport,          \* the serial port: "none", "open", "closed"
    dret,           \* what Dial returned
    \* the body phase of a SendSMS, at the level of the bytes
    wmsg,           \* message
    wpc,            \* "sms" (before the second exec), "exec" (the request is
                    \* with the Loop), "written"
    wcmd,           \* req.cmd of the second exec
    wbytes          \* the bytes handed to Transport.Write

modemVars == <<trCloses, rdState, rx, modemQ, wire, tokLeft, urcLeft, urcSent,
              said>>
loopVars == <<lpc, lret, cur, lines, tokens, tokClosed, scanErrs, spc, held>>
callerVars == <<cpc, cop, cphase, creq, cdl, cdone, cret, callsLeft>>
reqVars == <<nextReq, rinfo, respChan, nres, rret>>
closeVars == <<kpc, kret>>
urcVars == <<urcChan, urcBusy>>
newVars == <<bcfg, bbuilt, bpc, bdone, bretries, bdials, bcloses, bex, bsim,
            bret>>
atVars == <<sparts, stail, srest, sbuf, seof, sneed, sdone, stoks, sused, slast,
           ctok, ckind>>
dialVars == <<dname, dmode, dctx, dwas, dpc, dopc, dch, dkpc, dport, dret>>
\* what no step of a Modem that New has returned changes
bodyVars == <<wmsg, wpc, wcmd, wbytes>>
setup == <<hasTransport, deadlines, newVars, atVars, dialVars, bodyVars>>
\* what New leaves alone
session == <<closed, loopRunning, hasTransport, deadlines, loopCtxDone, urcVars,
             ctxDone, loopCallsLeft, modemVars, loopVars, callerVars, reqVars,
             closeVars, atVars, dialVars, bodyVars>>
\* what New leaves alone when it makes the Modem
built == <<closed, loopRunning, deadlines, loopCtxDone, urcVars, ctxDone,
           loopCallsLeft, modemVars, loopVars, callerVars, reqVars, closeVars,
           atVars, dialVars, bodyVars>>
\* the Modem and its construction
modem == <<closed, loopRunning, hasTransport, deadlines, newVars, loopCtxDone,
           urcVars, ctxDone, loopCallsLeft, modemVars, loopVars, callerVars,
           reqVars, closeVars, dialVars, bodyVars>>
\* what a call of SerialDialer.Dial leaves alone
gateway == <<closed, loopRunning, hasTransport, deadlines, newVars, loopCtxDone,
             urcVars, ctxDone, loopCallsLeft, modemVars, loopVars, callerVars,
             reqVars, closeVars, atVars, bodyVars>>
\* what the writing of a message body leaves alone
sender == <<closed, loopRunning, hasTransport, deadlines, newVars, loopCtxDone,
            urcVars, ctxDone, loopCallsLeft, modemVars, loopVars, callerVars,
            reqVars, closeVars, atVars, dialVars>>
vars == <<closed, loopRunning, setup, loopCtxDone, urcVars, ctxDone,
          loopCallsLeft, modemVars, loopVars, callerVars, reqVars, closeVars>>

NoTok == Tok(<<>>, 0)
NoRet == [response |-> <<>>, err |-> Err("none", <<>>), src |-> <<>>]
NoInfo == [caller |-> 0, call |-> 0, cmd |-> "none", by |-> 0, expired |-> {},
           stale |-> 0]

\* an error of New: kind is the innermost error (what errors.Is finds), text what
\* it carries, wraps the messages fmt.Errorf("<w>: %w") put around it, outermost
\* first
NewErr(kind, text) == [kind |-> kind, text |-> text, wraps |-> <<>>]
Errorf(w, e) == [e EXCEPT !.wraps = <<w>> \o @]
NoErr == NewErr("nil", <<>>)
NoNew == [modem |-> FALSE, err |-> NewErr("none", <<>>)]

\* the fields of a Modem, its Transport, and those who will use it
SessionOf(closeds, transports, dls, nLoops, calls, nTok, nUrc) ==
    /\ closed \in closeds
    /\ loopRunning = FALSE
    /\ hasTransport \in transports
    /\ loopCtxDone = FALSE
    /\ urcChan = <<>>
    /\ urcBusy = {}
    /\ trCloses = 0
    /\ rdState = "open"
    /\ rx = <<>>
    /\ modemQ = <<>>
    /\ wire = <<>>
    /\ tokLeft = nTok
    /\ urcLeft = nUrc
    /\ urcSent = 0
    /\ said = <<>>
    /\ ctxDone = FALSE
    /\ loopCallsLeft = nLoops
    /\ deadlines = dls
    /\ lpc = [l \in Loops |-> "idle"]
    /\ lret = [l \in Loops |-> "none"]
    /\ cur = [l \in Loops |-> 0]
    /\ lines = [l \in Loops |-> <<>>]
    /\ tokens = [l \in Loops |-> <<>>]
    /\ tokClosed = [l \in Loops |-> FALSE]
    /\ scanErrs = [l \in Loops |-> <<>>]
    /\ spc = [l \in Loops |-> "off"]
    /\ held = [l \in Loops |-> NoTok]
    /\ cpc = [c \in Callers |-> "idle"]
    /\ cop = [c \in Callers |-> "exec"]
    /\ cphase = [c \in Callers |-> 1]
    /\ creq = [c \in Callers |-> 0]
    /\ cdl = [c \in Callers |-> FALSE]
    /\ cdone = [c \in Callers |-> FALSE]
    /\ cret = [c \in Callers |-> NoRet]
    /\ callsLeft = calls
    /\ nextReq = 1
    /\ rinfo = [r \in Reqs |-> NoInfo]
    /\ respChan = [r \in Reqs |-> <<>>]
    /\ nres = [r \in Reqs |-> 0]
    /\ rret = [r \in Reqs |-> NoRet]
    /\ kpc = [k \in Closers |-> "idle"]
    /\ kret = [k \in Closers |-> "none"]

\* a Modem that has not been closed
SessionWith(transports, dls, nLoops, calls, nTok, nUrc) ==
    SessionOf({FALSE}, transports, dls, nLoops, calls, nTok, nUrc)

\* New has returned
Constructed ==
    /\ bcfg = [dialer |-> "works", pin |-> FALSE]
    /\ bbuilt = NoErr
    /\ bpc = "returned"
    /\ bdone = FALSE
    /\ bretries = 0
    /\ bdials = 1
    /\ bcloses = 0
    /\ bex = <<>>
    /\ bsim = <<>>
    /\ bret = [modem |-> TRUE, err |-> NoErr]

\* what a call of Splitter leaves behind; called is FALSE before the first call
NoSplit == [called |-> FALSE, data |-> <<>>, atEOF |-> FALSE, advance |-> 0,
            token |-> <<>>, has |-> FALSE]

\* no Scanner and no call of Classify apart from those of the Modem
NoScan ==
    /\ sparts = <<>>
    /\ stail = <<>>
    /\ srest = <<>>
    /\ sbuf = <<>>
    /\ seof = TRUE
    /\ sneed = FALSE
    /\ sdone = TRUE
    /\ stoks = <<>>
    /\ sused = 0
    /\ slast = NoSplit
    /\ ctok = <<>>
    /\ ckind = "none"

\* what Dial returns: whether the Transport is non-nil, and the error
NoDialRet == [transport |-> FALSE, err |-> NewErr("none", <<>>)]

\* no call of SerialDialer.Dial
NoDial ==
    /\ dname = <<>>
    /\ dmode = FALSE
    /\ dctx = "background"
    /\ dwas = "none"
    /\ dpc = "returned"
    /\ dopc = "off"
    /\ dch = <<>>
    /\ dkpc = "off"
    /\ dport = "none"
    /\ dret = NoDialRet

\* no message body followed at the level of the bytes
NoBody ==
    /\ wmsg = <<>>
    /\ wpc = "written"
    /\ wcmd = <<>>
    /\ wbytes = <<>>

\* the state New leaves (transport present) or a zero Modem (no transport), with
\* nLoops calls of Loop to come and nUrc URC tokens for the modem to emit
InitWith(transports, dls, nLoops, calls, nTok, nUrc) ==
    /\ SessionWith(transports, dls, nLoops, calls, nTok, nUrc)
    /\ Constructed
    /\ NoScan
    /\ NoDial
    /\ NoBody

\* every caller may make MaxCalls calls
AllCall == [c \in Callers |-> MaxCalls]

Init == InitWith(BOOLEAN, BOOLEAN, 2, AllCall, MaxTok, MaxUrc)

\* ------------------------------------------------------------- Loop
\* currentCmd.ctx.Done() is ready: the context of the call that made request r
\* is done; a call that returned while the Loop still held its request returned
\* through its own ctx.Done() arm
ReqDone(r) ==
    LET c == rinfo[r].caller
    IN  IF cpc[c] # "idle" /\ rinfo[r].call = callsLeft[c] THEN cdone[c] ELSE TRUE

\* the test of m.loopRunning that opens Loop
LoopCall(l) ==
    /\ lpc[l] = "idle"
    /\ loopCallsLeft > 0
    /\ hasTransport
    /\ loopCallsLeft' = loopCallsLeft - 1
    /\ IF loopRunning
          THEN /\ lpc' = [lpc EXCEPT ![l] = "done"]
               /\ lret' = [lret EXCEPT ![l] = "ErrLoopRunning"]
          ELSE /\ lpc' = [lpc EXCEPT ![l] = "set"]
               /\ lret' = lret
    /\ UNCHANGED <<closed, loopRunning, setup, loopCtxDone, urcVars, ctxDone,
                   modemVars, cur, lines, tokens, tokClosed, scanErrs, spc, held,
                   callerVars, reqVars, closeVars>>

\* m.loopRunning = true, the scanner, the two channels, and the go statement
LoopStart(l) ==
    /\ lpc[l] = "set"
    /\ loopRunning' = TRUE
    /\ lpc' = [lpc EXCEPT ![l] = "select"]
    /\ spc' = [spc EXCEPT ![l] = "scan"]
    /\ UNCHANGED <<closed, setup, loopCtxDone, urcVars, ctxDone, loopCallsLeft,
                   modemVars, lret, cur, lines, tokens, tokClosed, scanErrs, held,
                   callerVars, reqVars, closeVars>>

\* one turn of the scanning goroutine: scanner.Scan() returned a token; an empty
\* one is skipped, another is sent at once when tokens has room (or the goroutine
\* returns when ctx is done), and the goroutine parks in the select otherwise
ScanToken(l) ==
    /\ spc[l] = "scan"
    /\ rx # <<>>
    /\ rx' = Tail(rx)
    /\ IF Head(rx).tok = <<>> THEN UNCHANGED <<spc, held, tokens, tokClosed>>
       ELSE \/ /\ Len(tokens[l]) < TokensCap
               /\ tokens' = [tokens EXCEPT ![l] = Append(@, Head(rx))]
               /\ UNCHANGED <<spc, held, tokClosed>>
            \/ /\ ctxDone
               /\ spc' = [spc EXCEPT ![l] = "done"]
               /\ tokClosed' = [tokClosed EXCEPT ![l] = TRUE]
               /\ UNCHANGED <<held, tokens>>
            \/ /\ Len(tokens[l]) >= TokensCap
               /\ ~ctxDone
               /\ spc' = [spc EXCEPT ![l] = "send"]
               /\ held' = [held EXCEPT ![l] = Head(rx)]
               /\ UNCHANGED <<tokens, tokClosed>>
    /\ UNCHANGED <<closed, loopRunning, setup, loopCtxDone, urcVars, ctxDone,
                   loopCallsLeft, trCloses, rdState, modemQ, wire, tokLeft, urcLeft,
                   urcSent, said, lpc, lret, cur, lines, scanErrs,
                   callerVars, reqVars, closeVars>>

\* the goroutine parked in select { case tokens <- token: ; case <-ctx.Done(): return }
ScanSend(l) ==
    /\ spc[l] = "send"
    /\ \/ /\ Len(tokens[l]) < TokensCap
          /\ tokens' = [tokens EXCEPT ![l] = Append(@, held[l])]
          /\ spc' = [spc EXCEPT ![l] = "scan"]
          /\ UNCHANGED tokClosed
       \/ /\ ctxDone
          /\ spc' = [spc EXCEPT ![l] = "done"]
          /\ tokClosed' = [tokClosed EXCEPT ![l] = TRUE]
          /\ UNCHANGED tokens
    /\ held' = [held EXCEPT ![l] = NoTok]
    /\ UNCHANGED <<closed, loopRunning, setup, loopCtxDone, urcVars, ctxDone,
                   loopCallsLeft, modemVars, lpc, lret, cur, lines, scanErrs,
                   callerVars, reqVars, closeVars>>

\* scanner.Scan() returned false: at EOF close(tokens); on a read error go on to
\* report it
ScanStop(l) ==
    /\ spc[l] = "scan"
    /\ rx = <<>>
    /\ rdState # "open"
    /\ IF rdState = "eof"
          THEN /\ spc' = [spc EXCEPT ![l] = "done"]
               /\ tokClosed' = [tokClosed EXCEPT ![l] = TRUE]
          ELSE /\ spc' = [spc EXCEPT ![l] = "senderr"]
               /\ UNCHANGED tokClosed
    /\ UNCHANGED <<closed, loopRunning, setup, loopCtxDone, urcVars, ctxDone,
                   loopCallsLeft, modemVars, lpc, lret, cur, lines, tokens, scanErrs,
                   held, callerVars, reqVars, closeVars>>

\* select { case scanErrs <- err: ; case <-ctx.Done(): }, then close(tokens)
ScanSendErr(l) ==
    /\ spc[l] = "senderr"
    /\ \/ /\ Len(scanErrs[l]) < ScanErrsCap
          /\ scanErrs' = [scanErrs EXCEPT ![l] = Append(@, "err")]
       \/ /\ ctxDone
          /\ UNCHANGED scanErrs
    /\ spc' = [spc EXCEPT ![l] = "done"]
    /\ tokClosed' = [tokClosed EXCEPT ![l] = TRUE]
    /\ UNCHANGED <<closed, loopRunning, setup, loopCtxDone, urcVars, ctxDone,
                   loopCallsLeft, modemVars, lpc, lret, cur, lines, tokens, held,
                   callerVars, reqVars, closeVars>>

\* currentCmd.respChan <- resp, for request r (nothing when r is nil)
Put(r, resp) ==
    /\ respChan' = IF r = 0 THEN respChan
                   ELSE [respChan EXCEPT ![r] = Append(@, resp)]
    /\ nres' = IF r = 0 THEN nres ELSE [nres EXCEPT ![r] = @ + 1]

\* Loop returns: its result, and the deferred m.loopRunning = false
LoopReturn(l, ret) ==
    /\ lpc' = [lpc EXCEPT ![l] = "done"]
    /\ lret' = [lret EXCEPT ![l] = ret]
    /\ cur' = [cur EXCEPT ![l] = 0]
    /\ lines' = [lines EXCEPT ![l] = <<>>]
    /\ loopRunning' = FALSE

\* case <-ctx.Done()
LoopCancel(l) ==
    /\ lpc[l] = "select"
    /\ ctxDone
    /\ Put(cur[l], Resp(<<>>, Err("canceled", <<>>)))
    /\ LoopReturn(l, "canceled")
    /\ UNCHANGED <<closed, setup, loopCtxDone, urcVars, ctxDone, loopCallsLeft,
                   modemVars, tokens, tokClosed, scanErrs, spc, held,
                   callerVars, nextReq, rinfo, rret, closeVars>>

\* a Loop that returns io.EOF and tells the command nothing
LoopEOFSilent(l) ==
    /\ lpc[l] = "select"
    /\ tokens[l] = <<>>
    /\ tokClosed[l]
    /\ LoopReturn(l, "EOF")
    /\ UNCHANGED <<closed, setup, loopCtxDone, urcVars, ctxDone, loopCallsLeft,
                   modemVars, tokens, tokClosed, scanErrs, spc, held,
                   callerVars, reqVars, closeVars>>

\* case token, ok := <-tokens with !ok
LoopEOF(l) ==
    /\ lpc[l] = "select"
    /\ tokens[l] = <<>>
    /\ tokClosed[l]
    /\ Put(cur[l], Resp(<<>>, Err("EOF", <<>>)))
    /\ LoopReturn(l, "EOF")
    /\ UNCHANGED <<closed, setup, loopCtxDone, urcVars, ctxDone, loopCallsLeft,
                   modemVars, tokens, tokClosed, scanErrs, spc, held,
                   callerVars, nextReq, rinfo, rret, closeVars>>

\* case err := <-scanErrs
LoopScanErr(l) ==
    /\ lpc[l] = "select"
    /\ scanErrs[l] # <<>>
    /\ scanErrs' = [scanErrs EXCEPT ![l] = Tail(@)]
    /\ Put(cur[l], Resp(<<>>, Err("read error", <<>>)))
    /\ LoopReturn(l, "scanner error")
    /\ UNCHANGED <<closed, setup, loopCtxDone, urcVars, ctxDone, loopCallsLeft,
                   modemVars, tokens, tokClosed, spc, held,
                   callerVars, nextReq, rinfo, rret, closeVars>>

\* what m.transport.Write may return: a closed Transport refuses the write, a
\* broken link may, a working one takes it
WriteOutcomes ==
    IF trCloses > 0 THEN {FALSE}
    ELSE IF rdState # "open" THEN {TRUE, FALSE}
    ELSE {TRUE}

\* the tokens in q that the modem said unasked and that are no URCs
Stale(q) == SelectSeq(q, LAMBDA t : t.re = 0 /\ Classify(t.tok) # "TypeURC")

\* case req := <-m.commands, meeting caller c in the first select of exec; the
\* request is marked with the Loop that took it and with the number of unasked
\* tokens that waited in the channel tokens at that moment
LoopAccept(l, c) ==
    /\ lpc[l] = "select"
    /\ cpc[c] = "send"
    /\ cpc' = [cpc EXCEPT ![c] = "wait"]
    /\ rinfo' = [rinfo EXCEPT ![creq[c]].by = l,
                              ![creq[c]].stale = Len(Stale(tokens[l]))]
    /\ lines' = [lines EXCEPT ![l] = <<>>]
    /\ \E ok \in WriteOutcomes :
          /\ wire' = Append(wire, [req |-> creq[c], ok |-> ok])
          /\ IF ok
                THEN /\ cur' = [cur EXCEPT ![l] = creq[c]]
                     /\ modemQ' = Append(modemQ, creq[c])
                     /\ UNCHANGED <<respChan, nres>>
                ELSE /\ cur' = [cur EXCEPT ![l] = 0]
                     /\ Put(creq[c], Resp(<<>>, Err("write command", <<>>)))
                     /\ UNCHANGED modemQ
    /\ UNCHANGED <<closed, loopRunning, setup, loopCtxDone, urcVars, ctxDone,
                   loopCallsLeft, trCloses, rdState, rx, tokLeft, urcLeft, urcSent, said,
                   lpc, lret, tokens, tokClosed, scanErrs, spc, held,
                   cop, cphase, creq, cdl, cdone, cret, callsLeft,
                   nextReq, rret, closeVars>>

\* a switch that takes a URC for a line of the answer
DispatchUrcAsData(r, ls, t) ==
    IF r = 0 THEN [cur |-> r, lines |-> ls, put |-> <<>>]
    ELSE [cur |-> r, lines |-> Append(ls, t), put |-> <<>>]

\* a send on m.urcChan that waits for room
UrcOfferWaits(ch, text) == IF Len(ch) < UrcCap THEN {Append(ch, text)} ELSE {}

\* select { case m.urcChan <- token: ; default: }: the contents the sink may have
\* afterwards (none would mean that the Loop waits)
UrcOffer(ch, text) == IF Len(ch) < UrcCap THEN {Append(ch, text)} ELSE {ch}

\* a switch that takes the prompt for a line of data
DispatchPromptAsData(r, ls, t) ==
    LET kind == Classify(t.tok)
        all == Append(ls, t)
    IN  IF r = 0 \/ kind = "TypeURC" THEN [cur |-> r, lines |-> ls, put |-> <<>>]
        ELSE IF kind \in {"TypeData", "TypePrompt"}
            THEN [cur |-> r, lines |-> all, put |-> <<>>]
        ELSE [cur |-> 0, lines |-> <<>>,
              put |-> <<Resp(all, IF t.tok = OK THEN Nil ELSE Err("token", t.tok))>>]

\* a switch that puts a new line before the lines it has
DispatchPrepend(r, ls, t) ==
    LET kind == Classify(t.tok)
        all == <<t>> \o ls
    IN  IF r = 0 \/ kind = "TypeURC" THEN [cur |-> r, lines |-> ls, put |-> <<>>]
        ELSE IF kind = "TypeData" THEN [cur |-> r, lines |-> all, put |-> <<>>]
        ELSE IF kind = "TypeFinal"
            THEN [cur |-> 0, lines |-> <<>>,
                  put |-> <<Resp(Append(ls, t),
                                 IF t.tok = OK THEN Nil ELSE Err("token", t.tok))>>]
        ELSE [cur |-> 0, lines |-> <<>>, put |-> <<Resp(Append(ls, t), Nil)>>]

\* a switch that ends the command without error on every Final token
DispatchFinalNoError(r, ls, t) ==
    LET kind == Classify(t.tok)
        all == Append(ls, t)
    IN  IF r = 0 \/ kind = "TypeURC" THEN [cur |-> r, lines |-> ls, put |-> <<>>]
        ELSE IF kind = "TypeData" THEN [cur |-> r, lines |-> all, put |-> <<>>]
        ELSE [cur |-> 0, lines |-> <<>>, put |-> <<Resp(all, Nil)>>]

\* the switch on at.Classify(token): the command (request, lines) it leaves and
\* the response it sends, if any
Dispatch(r, ls, t) ==
    LET kind == Classify(t.tok)
        all == Append(ls, t)
    IN  IF r = 0 \/ kind = "TypeURC" THEN [cur |-> r, lines |-> ls, put |-> <<>>]
        ELSE IF kind = "TypeData" THEN [cur |-> r, lines |-> all, put |-> <<>>]
        ELSE IF kind = "TypeFinal"
            THEN [cur |-> 0, lines |-> <<>>,
                  put |-> <<Resp(all, IF t.tok = OK THEN Nil ELSE Err("token", t.tok))>>]
        ELSE [cur |-> 0, lines |-> <<>>, put |-> <<Resp(all, Nil)>>]

\* the select on currentCmd.ctx.Done() that follows the switch
TimeoutCheck(d) ==
    IF d.cur # 0 /\ ReqDone(d.cur)
        THEN [cur |-> 0, lines |-> <<>>,
              put |-> <<Resp(<<>>, Err("command timeout", <<>>))>>]
        ELSE d

\* case token, ok := <-tokens with ok
LoopToken(l) ==
    /\ lpc[l] = "select"
    /\ tokens[l] # <<>>
    /\ LET t == Head(tokens[l])
           d == Dispatch(cur[l], lines[l], t)
           e == TimeoutCheck(d)
       IN  /\ tokens' = [tokens EXCEPT ![l] = Tail(@)]
           /\ urcChan' \in IF Classify(t.tok) = "TypeURC"
                               THEN UrcOffer(urcChan, t.tok) ELSE {urcChan}
           /\ urcBusy' = IF Classify(t.tok) = "TypeURC" /\ cur[l] # 0
                             THEN urcBusy \cup {IF urcChan' = urcChan THEN "dropped"
                                                ELSE "sent"}
                             ELSE urcBusy
           /\ cur' = [cur EXCEPT ![l] = e.cur]
           /\ lines' = [lines EXCEPT ![l] = e.lines]
           /\ IF d.put # <<>> THEN Put(cur[l], d.put[1])
              ELSE IF e.put # <<>> THEN Put(cur[l], e.put[1])
              ELSE UNCHANGED <<respChan, nres>>
    /\ UNCHANGED <<closed, loopRunning, setup, loopCtxDone, ctxDone,
                   loopCallsLeft, modemVars, lpc, lret, tokClosed, scanErrs, spc, held,
                   callerVars, nextReq, rinfo, rret, closeVars>>

\* ------------------------------------------------------------- exec and SendSMS
\* NewConfigBuilder's timeouts, in milliseconds
DefaultAtTimeout == 5000
DefaultInitTimeout == 30000

\* Config{}, and the Config of a builder whose timeouts were left alone
ZeroConfig == [atTimeout |-> 0, initTimeout |-> 0]
BuilderConfig == [atTimeout |-> DefaultAtTimeout, initTimeout |-> DefaultInitTimeout]

\* the Modem New makes of a Config: it sets atTimeout and leaves the field
\* config as it is in a new Modem
NewModem(config) == [atTimeout |-> config.atTimeout, config |-> ZeroConfig]

\* exec: the context it goes on with can become done, given whether the
\* caller's context has a deadline (or can be cancelled)
ExecTimed(hasDeadline, m) == hasDeadline \/ m.config.atTimeout > 0

\* what the callers call: both may call exec, caller 1 may call SendSMS
Ops(c) == IF c = 1 THEN {"exec", "sms"} ELSE {"exec"}

\* a caller starts exec (op "exec") or SendSMS (op "sms") with a context that can
\* become done (dl) or never does
Call(c) ==
    /\ cpc[c] = "idle"
    /\ callsLeft[c] > 0
    /\ callsLeft' = [callsLeft EXCEPT ![c] = @ - 1]
    /\ \E op \in Ops(c), dl \in deadlines :
          /\ cop' = [cop EXCEPT ![c] = op]
          /\ cdl' = [cdl EXCEPT ![c] = dl]
    /\ cpc' = [cpc EXCEPT ![c] = "enter"]
    /\ cphase' = [cphase EXCEPT ![c] = 1]
    /\ cdone' = [cdone EXCEPT ![c] = FALSE]
    /\ creq' = [creq EXCEPT ![c] = 0]
    /\ cret' = [cret EXCEPT ![c] = NoRet]
    /\ UNCHANGED <<closed, loopRunning, setup, loopCtxDone, urcVars, ctxDone,
                   loopCallsLeft, modemVars, loopVars, reqVars, closeVars>>

\* the deadline of caller c's context passes, or the context is cancelled
Expire(c) ==
    /\ cpc[c] \in {"send", "wait"}
    /\ cdl[c]
    /\ ~cdone[c]
    /\ cdone' = [cdone EXCEPT ![c] = TRUE]
    /\ UNCHANGED <<closed, loopRunning, setup, loopCtxDone, urcVars, ctxDone,
                   loopCallsLeft, modemVars, loopVars, cpc, cop, cphase, creq, cdl,
                   cret, callsLeft, reqVars, closeVars>>

\* a SendSMS that does not look for the prompt
AfterCmgsNoPromptTest(resp) ==
    IF resp.err # Nil
        THEN [resp EXCEPT !.err = Wrap("AT+CMGS command failed", resp.err)]
    ELSE [resp EXCEPT !.err = Err("next", <<>>)]

\* a SendSMS that does not look for OK in the answer to the body
AfterBodyNoOkTest(resp) ==
    IF resp.err # Nil
        THEN [resp EXCEPT !.err = Wrap("SMS send failed", resp.err)]
    ELSE resp

\* a SendSMS that reports a failed body without the error of exec
AfterBodyPlainError(resp) ==
    IF resp.err # Nil
        THEN [resp EXCEPT !.err = Err("SMS send failed", <<>>)]
    ELSE IF ~Contains(resp.response, OK)
        THEN [resp EXCEPT !.err = Err("unexpected SMS response", resp.response)]
    ELSE resp

\* what SendSMS does with the result of its first exec: "next" stands for going
\* on to the body
AfterCmgs(resp) ==
    IF resp.err # Nil
        THEN [resp EXCEPT !.err = Wrap("AT+CMGS command failed", resp.err)]
    ELSE IF ~Contains(resp.response, Prompt)
        THEN [resp EXCEPT !.err = Err("did not receive SMS prompt", resp.response)]
    ELSE [resp EXCEPT !.err = Err("next", <<>>)]

\* what SendSMS returns after its second exec
AfterBody(resp) ==
    IF resp.err # Nil
        THEN [resp EXCEPT !.err = Wrap("SMS send failed", resp.err)]
    ELSE IF ~Contains(resp.response, OK)
        THEN [resp EXCEPT !.err = Err("unexpected SMS response", resp.response)]
    ELSE resp

\* exec returns resp to its caller: exec's caller gets it as it is, SendSMS goes
\* on to its second exec or returns
ExecReturn(c, resp) ==
    LET out == IF cop[c] = "exec" THEN resp
               ELSE IF cphase[c] = 1 THEN AfterCmgs(resp)
               ELSE AfterBody(resp)
    IN  /\ rret' = IF creq[c] = 0 THEN rret ELSE [rret EXCEPT ![creq[c]] = resp]
        /\ creq' = [creq EXCEPT ![c] = 0]
        /\ IF out.err.kind = "next"
              THEN /\ cpc' = [cpc EXCEPT ![c] = "enter"]
                   /\ cphase' = [cphase EXCEPT ![c] = 2]
                   /\ UNCHANGED <<cret, cdone>>
              ELSE /\ cpc' = [cpc EXCEPT ![c] = "idle"]
                   /\ cphase' = [cphase EXCEPT ![c] = 1]
                   /\ cret' = [cret EXCEPT ![c] = out]
                   /\ cdone' = [cdone EXCEPT ![c] = FALSE]

\* exec without the test of m.closed
EnterNoClosedTest(c) ==
    /\ cpc[c] = "enter"
    /\ IF ~hasTransport
          THEN /\ ExecReturn(c, [NoRet EXCEPT !.err = Err("ErrNotInitialized", <<>>)])
               /\ UNCHANGED <<nextReq, rinfo>>
          ELSE /\ creq' = [creq EXCEPT ![c] = nextReq]
               /\ nextReq' = nextReq + 1
               /\ rinfo' = [rinfo EXCEPT ![nextReq] =
                     [caller |-> c, call |-> callsLeft[c],
                      cmd |-> IF cop[c] = "exec" THEN "AT"
                              ELSE IF cphase[c] = 1 THEN "CMGS" ELSE "BODY",
                      by |-> 0,
                      expired |-> {q \in Reqs : rret[q].err.kind = "command timeout"},
                      stale |-> 0]]
               /\ cpc' = [cpc EXCEPT ![c] = "send"]
               /\ UNCHANGED <<cphase, cret, cdone, rret>>
    /\ UNCHANGED <<closed, loopRunning, setup, loopCtxDone, urcVars, ctxDone,
                   loopCallsLeft, modemVars, loopVars, cop, cdl, callsLeft,
                   respChan, nres, closeVars>>

\* the head of exec: the closed and transport tests, then the commandRequest
Enter(c) ==
    /\ cpc[c] = "enter"
    /\ IF closed \/ ~hasTransport
          THEN /\ ExecReturn(c, [NoRet EXCEPT !.err =
                        IF closed THEN Err("ErrAlreadyClosed", <<>>)
                        ELSE Err("ErrNotInitialized", <<>>)])
               /\ UNCHANGED <<nextReq, rinfo>>
          ELSE /\ creq' = [creq EXCEPT ![c] = nextReq]
               /\ nextReq' = nextReq + 1
               /\ rinfo' = [rinfo EXCEPT ![nextReq] =
                     [caller |-> c, call |-> callsLeft[c],
                      cmd |-> IF cop[c] = "exec" THEN "AT"
                              ELSE IF cphase[c] = 1 THEN "CMGS" ELSE "BODY",
                      by |-> 0,
                      expired |-> {q \in Reqs : rret[q].err.kind = "command timeout"},
                      stale |-> 0]]
               /\ cpc' = [cpc EXCEPT ![c] = "send"]
               /\ UNCHANGED <<cphase, cret, cdone, rret>>
    /\ UNCHANGED <<closed, loopRunning, setup, loopCtxDone, urcVars, ctxDone,
                   loopCallsLeft, modemVars, loopVars, cop, cdl, callsLeft,
                   respChan, nres, closeVars>>

\* the first select of exec, case <-ctx.Done()
SendAbort(c) ==
    /\ cpc[c] = "send"
    /\ cdone[c]
    /\ ExecReturn(c, [NoRet EXCEPT !.err = Err("command cancelled before sending", <<>>)])
    /\ UNCHANGED <<closed, loopRunning, setup, loopCtxDone, urcVars, ctxDone,
                   loopCallsLeft, modemVars, loopVars, cop, cdl, callsLeft,
                   nextReq, rinfo, respChan, nres, closeVars>>

\* the second select of exec, case resp := <-req.respChan
Recv(c) ==
    /\ cpc[c] = "wait"
    /\ respChan[creq[c]] # <<>>
    /\ respChan' = [respChan EXCEPT ![creq[c]] = Tail(@)]
    /\ ExecReturn(c, Head(respChan[creq[c]]))
    /\ UNCHANGED <<closed, loopRunning, setup, loopCtxDone, urcVars, ctxDone,
                   loopCallsLeft, modemVars, loopVars, cop, cdl, callsLeft,
                   nextReq, rinfo, nres, closeVars>>

\* a second select without the case <-ctx.Done()
WaitNoDeadline(c) == FALSE /\ cpc[c] = "wait" /\ UNCHANGED vars

\* the second select of exec, case <-ctx.Done()
WaitTimeout(c) ==
    /\ cpc[c] = "wait"
    /\ cdone[c]
    /\ ExecReturn(c, [NoRet EXCEPT !.err = Err("command timeout", <<>>)])
    /\ UNCHANGED <<closed, loopRunning, setup, loopCtxDone, urcVars, ctxDone,
                   loopCallsLeft, modemVars, loopVars, cop, cdl, callsLeft,
                   nextReq, rinfo, respChan, nres, closeVars>>

\* ------------------------------------------------------------- Close
\* the test of m.closed that opens Close
CloseCall(k) ==
    /\ kpc[k] = "idle"
    /\ IF closed
          THEN /\ kpc' = [kpc EXCEPT ![k] = "done"]
               /\ kret' = [kret EXCEPT ![k] = "ErrAlreadyClosed"]
          ELSE /\ kpc' = [kpc EXCEPT ![k] = "set"]
               /\ kret' = kret
    /\ UNCHANGED <<closed, loopRunning, setup, loopCtxDone, urcVars, ctxDone,
                   loopCallsLeft, modemVars, loopVars, callerVars, reqVars>>

\* m.closed = true, m.loopCancel(), m.transport.Close()
CloseDo(k) ==
    /\ kpc[k] = "set"
    /\ closed' = TRUE
    /\ loopCtxDone' = TRUE
    /\ trCloses' = IF hasTransport THEN trCloses + 1 ELSE trCloses
    /\ kpc' = [kpc EXCEPT ![k] = "done"]
    /\ kret' = [kret EXCEPT ![k] = IF hasTransport THEN "transport.Close" ELSE "nil"]
    /\ UNCHANGED <<loopRunning, setup, urcVars, ctxDone, loopCallsLeft,
                   rdState, rx, modemQ, wire, tokLeft, urcLeft, urcSent, said,
                   loopVars, callerVars, reqVars>>

\* ------------------------------------------------------------- the environment
\* a reader of m.URC() takes a URC
UrcRecv ==
    /\ urcChan # <<>>
    /\ urcChan' = Tail(urcChan)
    /\ UNCHANGED urcBusy
    /\ UNCHANGED <<closed, loopRunning, setup, loopCtxDone, ctxDone,
                   loopCallsLeft, modemVars, loopVars, callerVars, reqVars, closeVars>>

\* the owner of the Loop cancels the context it gave to Loop
CancelCtx ==
    /\ ~ctxDone
    /\ \E l \in Loops : lpc[l] # "idle"
    /\ ctxDone' = TRUE
    /\ UNCHANGED <<closed, loopRunning, setup, loopCtxDone, urcVars,
                   loopCallsLeft, modemVars, loopVars, callerVars, reqVars, closeVars>>

\* the read side of the Transport ends: EOF or a read error
TransportEnd ==
    /\ rdState = "open"
    /\ hasTransport
    /\ rdState' \in {"eof", "err"}
    /\ UNCHANGED <<closed, loopRunning, setup, loopCtxDone, urcVars, ctxDone,
                   loopCallsLeft, trCloses, rx, modemQ, wire, tokLeft, urcLeft, urcSent, said,
                   loopVars, callerVars, reqVars, closeVars>>

\* the modem says one line, out of texts, in answer to the oldest command it has
\* not finished answering; a Final or Prompt line finishes the answer
ModemSays(texts) ==
    /\ rdState = "open"
    /\ modemQ # <<>>
    /\ tokLeft > 0
    /\ Len(rx) < MaxRx
    /\ \E text \in texts :
          /\ rx' = Append(rx, Tok(text, Head(modemQ)))
          /\ said' = Append(said, Tok(text, Head(modemQ)))
          /\ modemQ' = IF Classify(text) \in {"TypeFinal", "TypePrompt"}
                          THEN Tail(modemQ) ELSE modemQ
    /\ tokLeft' = tokLeft - 1
    /\ UNCHANGED <<closed, loopRunning, setup, loopCtxDone, urcVars, ctxDone,
                   loopCallsLeft, trCloses, rdState, wire, urcLeft, urcSent,
                   loopVars, callerVars, reqVars, closeVars>>

\* a modem that answers
ModemReply == ModemSays(ReplyTexts)

\* a modem that never says a Final or Prompt line
ModemData == ModemSays({text \in ReplyTexts : Classify(text) = "TypeData"})

\* what a modem may say unasked that is no URC: a line of data, a Final line,
\* the prompt
UnaskedTexts == {DataText, OK, Prompt}

\* the modem says a line unasked while no command is outstanding: no call of
\* exec or SendSMS is in progress, no Loop holds a command, and the modem has
\* answered all it was sent
ModemUnasked ==
    /\ rdState = "open"
    /\ hasTransport
    /\ modemQ = <<>>
    /\ \A l \in Loops : cur[l] = 0
    /\ \A c \in Callers : cpc[c] = "idle"
    /\ tokLeft > 0
    /\ Len(rx) < MaxRx
    /\ \E text \in UnaskedTexts :
          /\ rx' = Append(rx, Tok(text, 0))
          /\ said' = Append(said, Tok(text, 0))
    /\ tokLeft' = tokLeft - 1
    /\ UNCHANGED <<closed, loopRunning, setup, loopCtxDone, urcVars, ctxDone,
                   loopCallsLeft, trCloses, rdState, modemQ, wire, urcLeft, urcSent,
                   loopVars, callerVars, reqVars, closeVars>>

\* the modem reports a new message, unasked
ModemUrc ==
    /\ rdState = "open"
    /\ hasTransport
    /\ urcLeft > 0
    /\ Len(rx) < MaxRx
    /\ rx' = Append(rx, Tok(UrcText(urcSent), 0))
    /\ said' = Append(said, Tok(UrcText(urcSent), 0))
    /\ urcLeft' = urcLeft - 1
    /\ urcSent' = urcSent + 1
    /\ UNCHANGED <<closed, loopRunning, setup, loopCtxDone, urcVars, ctxDone,
                   loopCallsLeft, trCloses, rdState, modemQ, wire, tokLeft,
                   loopVars, callerVars, reqVars, closeVars>>

\* ------------------------------------------------------------- New and init
\* fmt's %q: the text in double quotes, with ", \ and the line breaks escaped
RECURSIVE Quoted(_)
Quoted(t) ==
    IF t = <<>> THEN <<>>
    ELSE (CASE Head(t) = "\n" -> <<"\\", "n">>
            [] Head(t) = "\r" -> <<"\\", "r">>
            [] Head(t) = "\"" -> <<"\\", "\"">>
            [] Head(t) = "\\" -> <<"\\", "\\">>
            [] OTHER -> <<Head(t)>>) \o Quoted(Tail(t))

Quote(t) == <<"\"">> \o Quoted(t) \o <<"\"">>

\* the lines a modem may say during New
NewTexts == {OK, ERROR, Prompt, UrcCall, SimReady, SimPin, SimPin2Text, SimPukText}

\* the lines that do not end an answer, and up to MaxAns of them
MidTexts == {t \in NewTexts : Classify(t) \in {"TypeData", "TypeURC"}}
MidLines == UNION {[1..n -> MidTexts] : n \in 0..MaxAns}

\* how the reading ends when the tokens end without a Final or Prompt: the
\* Transport reports EOF or an error, or the context is done
Ends == {"eof", "err", "timeout"}

\* what may happen to a call of execDirect: the write fails; or it succeeds and
\* the modem says some lines and one that ends the answer; or it says some
\* lines and the reading ends
Inputs ==
    {[wok |-> FALSE, toks |-> <<>>, end |-> "eof"]}
    \cup {[wok |-> TRUE, toks |-> Append(ls, t), end |-> "eof"] :
             ls \in MidLines, t \in NewTexts \ MidTexts}
    \cup {[wok |-> TRUE, toks |-> ls, end |-> e] : ls \in MidLines, e \in Ends}

\* execDirect's loop over the tokens that are left, with the lines it has so far
RECURSIVE ScanDirect(_, _, _)
ScanDirect(toks, ls, end) ==
    IF toks = <<>>
        THEN [response |-> Join(ls),
              err |-> CASE end = "eof" -> NewErr("EOF", <<>>)
                        [] end = "err" -> Errorf("read error", NewErr("read", <<>>))
                        [] OTHER -> NewErr("context deadline exceeded", <<>>),
              terminal |-> FALSE]
    ELSE LET token == Head(toks)
         IN  IF token = <<>> THEN ScanDirect(Tail(toks), ls, end)
             ELSE CASE Classify(token) = "TypeFinal" ->
                          [response |-> Join(Append(ls, token)),
                           err |-> IF token = OK THEN NoErr ELSE NewErr("token", token),
                           terminal |-> TRUE]
                    [] Classify(token) = "TypeData" ->
                          ScanDirect(Tail(toks), Append(ls, token), end)
                    [] Classify(token) = "TypeURC" ->
                          ScanDirect(Tail(toks), ls, end)
                    [] OTHER ->
                          [response |-> Join(Append(ls, token)),
                           err |-> NoErr,
                           terminal |-> TRUE]

\* execDirect: the write succeeds or not (wok), then the modem says toks
ExecDirect(wok, toks, end) ==
    IF closed
        THEN [response |-> <<>>, err |-> NewErr("ErrAlreadyClosed", <<>>),
              terminal |-> FALSE]
    ELSE IF ~hasTransport
        THEN [response |-> <<>>, err |-> NewErr("ErrNotInitialized", <<>>),
              terminal |-> FALSE]
    ELSE IF ~wok
        THEN [response |-> <<>>,
              err |-> Errorf("write command", NewErr("write", <<>>)),
              terminal |-> FALSE]
    ELSE IF bdone THEN ScanDirect(<<>>, <<>>, "timeout")
    ELSE ScanDirect(toks, <<>>, end)

\* expectOkDirect, given what execDirect returned
ExpectOkDirect(res) ==
    IF res.err # NoErr THEN res.err
    ELSE IF ~Contains(res.response, OK)
        THEN NewErr("unexpected response", Quote(res.response))
    ELSE NoErr

\* the case of init's switch that a SIM status text falls in
SimState(simStatus) ==
    IF Contains(simStatus, SimReady) THEN "ready"
    ELSE IF Contains(simStatus, SimPin) THEN "pin"
    ELSE "other"

\* the errors of execDirect's tests of m.closed and m.transport
Structural == {"ErrAlreadyClosed", "ErrNotInitialized"}

\* execDirect was called with cmd and returned res; a deadline that ended it may
\* have been the one of init's context
Exchange(cmd, wok, res) ==
    /\ bex' = Append(bex, [cmd |-> cmd,
                            ok |-> wok /\ res.err.kind \notin Structural,
                            terminal |-> res.terminal,
                            err |-> res.err,
                            status |-> IF cmd = "AT+CPIN?" /\ res.err = NoErr
                                          THEN SimState(res.response) ELSE "none"])
    /\ bdone' \in IF res.err.kind = "context deadline exceeded"
                     THEN {bdone, TRUE} ELSE {bdone}

\* a New that leaves the Transport open when init fails
FailNoClose(e) ==
    /\ bpc' = "returned"
    /\ bcloses' = bcloses
    /\ bret' = [modem |-> FALSE, err |-> Errorf("initialize modem", e)]

\* init returns e: New closes the Transport and returns the error
Fail(e) ==
    /\ bpc' = "returned"
    /\ bcloses' = IF hasTransport THEN bcloses + 1 ELSE bcloses
    /\ bret' = [modem |-> FALSE, err |-> Errorf("initialize modem", e)]

\* ConfigBuilder.Build
Build ==
    /\ bpc = "build"
    /\ bbuilt' = IF bcfg.dialer = "none" THEN NewErr("ErrNoDialer", <<>>) ELSE NoErr
    /\ bpc' = "new"
    /\ UNCHANGED <<session, bcfg, bdone, bretries, bdials, bcloses, bex, bsim, bret>>

\* a New that dials again when Dial has failed
NewDialAgain ==
    /\ bpc = "new"
    /\ IF bcfg.dialer = "none"
          THEN /\ bret' = [modem |-> FALSE, err |-> NewErr("ErrNoDialer", <<>>)]
               /\ bpc' = "returned"
               /\ bdials' = bdials
          ELSE IF bcfg.dialer = "fails"
                  THEN /\ bdials' = bdials + 2
                       /\ bret' = [modem |-> FALSE, err |-> NewErr("dial", <<>>)]
                       /\ bpc' = "returned"
                  ELSE /\ bdials' = bdials + 1
                       /\ bret' = bret
                       /\ bpc' = "AT"
    /\ hasTransport' = (bcfg.dialer = "works")
    /\ UNCHANGED <<built, bcfg, bbuilt, bdone, bretries, bcloses, bex, bsim>>

\* New, up to the call of init
NewDial ==
    /\ bpc = "new"
    /\ IF bcfg.dialer = "none"
          THEN /\ bret' = [modem |-> FALSE, err |-> NewErr("ErrNoDialer", <<>>)]
               /\ bpc' = "returned"
               /\ bdials' = bdials
          ELSE /\ bdials' = bdials + 1
               /\ IF bcfg.dialer = "fails"
                     THEN /\ bret' = [modem |-> FALSE, err |-> NewErr("dial", <<>>)]
                          /\ bpc' = "returned"
                     ELSE /\ bret' = bret
                          /\ bpc' = "AT"
    /\ hasTransport' = (bcfg.dialer = "works")
    /\ UNCHANGED <<built, bcfg, bbuilt, bdone, bretries, bcloses, bex, bsim>>

\* the context of New is cancelled, or the bring-up deadline passes
NewExpire ==
    /\ bpc \notin {"build", "new", "returned"}
    /\ ~bdone
    /\ bdone' = TRUE
    /\ UNCHANGED <<session, bcfg, bbuilt, bpc, bretries, bdials, bcloses, bex, bsim,
                   bret>>

\* one expectOkDirect step of init: command cmd, the message that wraps its
\* error, and the step that follows
InitStep(cmd, msg, next) ==
    /\ bpc = cmd
    /\ \E in \in Inputs :
          LET res == ExecDirect(in.wok, in.toks, in.end)
              e == ExpectOkDirect(res)
          IN  /\ Exchange(cmd, in.wok, res)
              /\ IF e = NoErr
                    THEN /\ bpc' = next
                         /\ UNCHANGED <<bcloses, bret>>
                    ELSE Fail(Errorf(msg, e))
    /\ bretries' = 0
    /\ UNCHANGED <<session, bcfg, bbuilt, bdials, bsim>>

InitAt == InitStep("AT", "modem not responding", "ATE0")
InitEchoOff == InitStep("ATE0", "could not disable echo", "AT+CMEE=2")
InitVerboseErrors == InitStep("AT+CMEE=2", "could not enable verbose errors", "AT+CPIN?")

\* an init that submits the PIN whether one is set or not
InitSimStatusAnyPin ==
    /\ bpc = "AT+CPIN?"
    /\ \E in \in Inputs :
          LET res == ExecDirect(in.wok, in.toks, in.end)
          IN  /\ Exchange("AT+CPIN?", in.wok, res)
              /\ bsim' = res.response
              /\ IF res.err # NoErr
                    THEN Fail(Errorf("query SIM status", res.err))
                 ELSE IF SimState(res.response) = "ready"
                    THEN /\ bpc' = "AT+CMGF=1"
                         /\ UNCHANGED <<bcloses, bret>>
                 ELSE IF SimState(res.response) = "pin"
                    THEN /\ bpc' = "AT+CPIN=<pin>"
                         /\ UNCHANGED <<bcloses, bret>>
                 ELSE Fail(NewErr("unsupported SIM state", Quote(res.response)))
    /\ UNCHANGED <<session, bcfg, bbuilt, bretries, bdials>>

\* 4. Check SIM status
InitSimStatus ==
    /\ bpc = "AT+CPIN?"
    /\ \E in \in Inputs :
          LET res == ExecDirect(in.wok, in.toks, in.end)
          IN  /\ Exchange("AT+CPIN?", in.wok, res)
              /\ bsim' = res.response
              /\ IF res.err # NoErr
                    THEN Fail(Errorf("query SIM status", res.err))
                 ELSE IF SimState(res.response) = "ready"
                    THEN /\ bpc' = "AT+CMGF=1"
                         /\ UNCHANGED <<bcloses, bret>>
                 ELSE IF SimState(res.response) = "pin"
                    THEN IF ~bcfg.pin
                            THEN Fail(NewErr("ErrSIMPinRequired", <<>>))
                            ELSE /\ bpc' = "AT+CPIN=<pin>"
                                 /\ UNCHANGED <<bcloses, bret>>
                 ELSE Fail(NewErr("unsupported SIM state", Quote(res.response)))
    /\ UNCHANGED <<session, bcfg, bbuilt, bretries, bdials>>

\* an init that selects text mode right after the PIN
InitPinNoWait == InitStep("AT+CPIN=<pin>", "enter SIM PIN", "AT+CMGF=1")

InitPin == InitStep("AT+CPIN=<pin>", "enter SIM PIN", "wait")

\* the defaults of waitForSIMReady, in milliseconds
DefaultPollInterval == 500
DefaultPollTimeout == 30000

\* PollConfig{}
ZeroPollConfig == [Interval |-> 0, Timeout |-> 0, MaxRetries |-> 0]

\* waitForSIMReady: maxRetries, from the PollConfig it was given
PollMaxRetries(config) ==
    LET pollInterval == IF config.Interval <= 0 THEN DefaultPollInterval
                        ELSE config.Interval
        timeout == IF config.Timeout <= 0 THEN DefaultPollTimeout ELSE config.Timeout
    IN  IF config.MaxRetries <= 0 THEN timeout \div pollInterval
        ELSE config.MaxRetries

\* a waitForSIMReady that polls once more than maxRetries allows
WaitTickOneMore ==
    /\ bpc = "wait"
    /\ bretries' = bretries + 1
    /\ IF bretries' > MaxRetries + 1
          THEN /\ Fail(NewErr("SIM not ready after retries", <<>>))
               /\ UNCHANGED <<bex, bdone>>
          ELSE \E in \in Inputs :
                  LET res == ExecDirect(in.wok, in.toks, in.end)
                  IN  /\ Exchange("AT+CPIN?", in.wok, res)
                      /\ IF res.err.kind \in Structural
                            THEN Fail(Errorf("SIM status check failed", res.err))
                            ELSE /\ bpc' = IF /\ res.err = NoErr
                                              /\ Contains(res.response, SimReady)
                                           THEN "AT+CMGF=1" ELSE "wait"
                                 /\ UNCHANGED <<bcloses, bret>>
    /\ UNCHANGED <<session, bcfg, bbuilt, bdials, bsim>>

\* a waitForSIMReady that polls again whatever the error of the poll
WaitTickNoFailFast ==
    /\ bpc = "wait"
    /\ bretries' = bretries + 1
    /\ IF bretries' > MaxRetries
          THEN /\ Fail(NewErr("SIM not ready after retries", <<>>))
               /\ UNCHANGED <<bex, bdone>>
          ELSE \E in \in Inputs :
                  LET res == ExecDirect(in.wok, in.toks, in.end)
                  IN  /\ Exchange("AT+CPIN?", in.wok, res)
                      /\ bpc' = IF res.err = NoErr /\ Contains(res.response, SimReady)
                                   THEN "AT+CMGF=1" ELSE "wait"
                      /\ UNCHANGED <<bcloses, bret>>
    /\ UNCHANGED <<session, bcfg, bbuilt, bdials, bsim>>

\* waitForSIMReady, case <-ticker.C; MaxRetries stands for maxRetries
WaitTick ==
    /\ bpc = "wait"
    /\ bretries' = bretries + 1
    /\ IF bretries' > MaxRetries
          THEN /\ Fail(NewErr("SIM not ready after retries", <<>>))
               /\ UNCHANGED <<bex, bdone>>
          ELSE \E in \in Inputs :
                  LET res == ExecDirect(in.wok, in.toks, in.end)
                  IN  /\ Exchange("AT+CPIN?", in.wok, res)
                      /\ IF res.err.kind \in Structural
                            THEN Fail(Errorf("SIM status check failed", res.err))
                            ELSE /\ bpc' = IF /\ res.err = NoErr
                                              /\ Contains(res.response, SimReady)
                                           THEN "AT+CMGF=1" ELSE "wait"
                                 /\ UNCHANGED <<bcloses, bret>>
    /\ UNCHANGED <<session, bcfg, bbuilt, bdials, bsim>>

\* waitForSIMReady, case <-ctx.Done()
WaitCancel ==
    /\ bpc = "wait"
    /\ bdone
    /\ Fail(Errorf("SIM not ready", NewErr("context deadline exceeded", <<>>)))
    /\ UNCHANGED <<session, bcfg, bbuilt, bdone, bretries, bdials, bex, bsim>>

\* the commands init hands to execDirect
InitCmds == {"AT", "ATE0", "AT+CMEE=2", "AT+CPIN?", "AT+CPIN=<pin>", "AT+CMGF=1"}

\* execDirect (in a poll of waitForSIMReady: after the tick and retries++) has
\* written its command and the modem says nothing (any more):
\* scanner.Scan() is in Transport.Read, which does not return; the test of
\* ctx.Done(), passed before this Scan, is made between two calls of Scan only
ReadBlocks ==
    /\ ~closed
    /\ hasTransport
    /\ ~bdone
    /\ \/ /\ bpc \in InitCmds
          /\ bpc' = "read"
          /\ UNCHANGED bretries
       \/ /\ bpc = "wait"
          /\ bretries < MaxRetries
          /\ bretries' = bretries + 1
          /\ bpc' = "poll read"
    /\ UNCHANGED <<session, bcfg, bbuilt, bdone, bdials, bcloses, bex, bsim, bret>>

\* 5. Select SMS text mode, and the return of New
InitTextMode ==
    /\ bpc = "AT+CMGF=1"
    /\ \E in \in Inputs :
          LET res == ExecDirect(in.wok, in.toks, in.end)
              e == ExpectOkDirect(res)
          IN  /\ Exchange("AT+CMGF=1", in.wok, res)
              /\ IF e = NoErr
                    THEN /\ bpc' = "returned"
                         /\ bret' = [modem |-> TRUE, err |-> NoErr]
                         /\ UNCHANGED bcloses
                    ELSE Fail(Errorf("set SMS text mode", e))
    /\ UNCHANGED <<session, bcfg, bbuilt, bretries, bdials, bsim>>

\* an exchange of init that went well
Went(cmd, status) ==
    [cmd |-> cmd, ok |-> TRUE, terminal |-> TRUE, err |-> NoErr, status |-> status]

\* init has had the PIN accepted and calls waitForSIMReady, on a Modem that
\* may be closed or have no Transport
InitWait ==
    /\ SessionOf(BOOLEAN, BOOLEAN, {FALSE}, 0, [c \in Callers |-> 0], 0, 0)
    /\ bcfg = [dialer |-> "works", pin |-> TRUE]
    /\ bbuilt = NoErr
    /\ bpc = "wait"
    /\ bdone = FALSE
    /\ bretries = 0
    /\ bdials = 1
    /\ bcloses = 0
    /\ bex = <<Went("AT", "none"), Went("ATE0", "none"), Went("AT+CMEE=2", "none"),
               Went("AT+CPIN?", "pin"), Went("AT+CPIN=<pin>", "none")>>
    /\ bsim = Join(<<SimPin, OK>>)
    /\ bret = NoNew
    /\ NoScan
    /\ NoDial
    /\ NoBody

NextWait ==
    \/ WaitTick
    \/ WaitCancel
    \/ NewExpire
    \/ InitTextMode
    \/ ReadBlocks

SpecWait == InitWait /\ [][NextWait]_vars

\* ------------------------------------------------------------- the Scanner
\* segments of an input: no CRLF inside, a CRLF after each
Segs == {<<>>, <<"a">>, OK, <<">">>, <<">", " ", "a">>, <<"a", ">", " ">>, <<"\r">>}

\* the pieces of an input: a segment with its CRLF, or the prompt marker
Pieces ==
    {[kind |-> "segment", text |-> t] : t \in Segs}
    \cup {[kind |-> "marker", text |-> Prompt]}

\* what may follow the pieces with no CRLF after it
Tails == {<<>>, <<"a">>, <<">">>, <<">", " ", "a">>, <<"a", ">">>}

\* the bytes of the pieces ps followed by tail
RECURSIVE Bytes(_, _)
Bytes(ps, tail) ==
    IF ps = <<>> THEN tail
    ELSE (IF Head(ps).kind = "segment" THEN Head(ps).text \o CRLF ELSE Head(ps).text)
         \o Bytes(Tail(ps), tail)

\* the tokens of a Scanner that holds all of data in its buffer: Splitter with
\* atEOF false until it asks for more, then with atEOF true
RECURSIVE ScanWhole(_, _)
ScanWhole(data, atEOF) ==
    IF data = <<>> THEN <<>>
    ELSE LET r == Splitter(data, atEOF)
         IN  IF r.has
                 THEN <<r.token>>
                      \o ScanWhole(SubSeq(data, r.advance + 1, Len(data)), atEOF)
             ELSE IF atEOF THEN <<>>
             ELSE ScanWhole(data, TRUE)

\* Scanner.Scan reads more of the input: any number of bytes that are left, or
\* the end of the input
ScanRead ==
    /\ ~sdone
    /\ ~seof
    /\ sbuf = <<>> \/ sneed
    /\ IF srest = <<>>
          THEN /\ seof' = TRUE
               /\ UNCHANGED <<srest, sbuf>>
          ELSE /\ \E k \in 1..Len(srest) :
                     /\ sbuf' = sbuf \o SubSeq(srest, 1, k)
                     /\ srest' = SubSeq(srest, k + 1, Len(srest))
               /\ seof' = seof
    /\ sneed' = FALSE
    /\ UNCHANGED <<modem, sparts, stail, sdone, stoks, sused, slast, ctok, ckind>>

\* Scanner.Scan calls the split function on what it holds
ScanSplit ==
    /\ ~sdone
    /\ ~sneed
    /\ sbuf # <<>> \/ seof
    /\ LET r == Splitter(sbuf, seof)
       IN  /\ slast' = [called |-> TRUE, data |-> sbuf, atEOF |-> seof,
                        advance |-> r.advance, token |-> r.token, has |-> r.has]
           /\ sbuf' = SubSeq(sbuf, r.advance + 1, Len(sbuf))
           /\ sused' = sused + r.advance
           /\ stoks' = IF r.has THEN Append(stoks, r.token) ELSE stoks
           /\ sneed' = (~r.has /\ ~seof)
           /\ sdone' = (~r.has /\ seof)
    /\ UNCHANGED <<modem, sparts, stail, srest, seof, ctok, ckind>>

\* ------------------------------------------------------------- Classify called
\* the words of package at that Classify knows
Words == {Prompt, OK, ERROR, NoCarrier, NoDialtone, Busy, NoAnswer, CmeError,
          CmsError, UrcNewMsg, UrcCall}

\* tokens to classify: the words, the words with something after or before
\* them, the words less their last character, and other lines
ClassifyTexts ==
    Words
    \cup {w \o x : w \in Words, x \in {<<" ", "1">>, <<"x">>, <<" ">>}}
    \cup {<<" ">> \o w : w \in Words}
    \cup {SubSeq(w, 1, Len(w) - 1) : w \in Words}
    \cup {<<>>, DataText, CsqText, SimReady, SimPin, <<"o", "k">>}

\* at.Classify is called with ctok
ClassifyCall ==
    /\ ckind = "none"
    /\ ckind' = Classify(ctok)
    /\ UNCHANGED <<modem, sparts, stail, srest, sbuf, seof, sneed, sdone, stoks,
                   sused, slast, ctok>>

\* ------------------------------------------------------------- specifications
\* everything the Modem, its callers and its environment can do
Next ==
    \/ \E l \in Loops :
          \/ LoopCall(l)
          \/ LoopStart(l)
          \/ ScanToken(l)
          \/ ScanSend(l)
          \/ ScanStop(l)
          \/ ScanSendErr(l)
          \/ LoopCancel(l)
          \/ LoopEOF(l)
          \/ LoopScanErr(l)
          \/ LoopToken(l)
          \/ \E c \in Callers : LoopAccept(l, c)
    \/ \E c \in Callers :
          \/ Call(c)
          \/ Enter(c)
          \/ Expire(c)
          \/ SendAbort(c)
          \/ Recv(c)
          \/ WaitTimeout(c)
    \/ \E k \in Closers : CloseCall(k) \/ CloseDo(k)
    \/ UrcRecv
    \/ CancelCtx
    \/ TransportEnd
    \/ ModemReply
    \/ ModemUrc

Spec == Init /\ [][Next]_vars

\* commands: one Loop, two callers, a modem that answers; nobody closes the
\* Modem, cancels the Loop or breaks the link
NextCmd ==
    \/ \E l \in Loops :
          \/ LoopCall(l)
          \/ LoopStart(l)
          \/ ScanToken(l)
          \/ LoopToken(l)
          \/ \E c \in Callers : LoopAccept(l, c)
    \/ \E c \in Callers :
          \/ Call(c)
          \/ Enter(c)
          \/ Expire(c)
          \/ SendAbort(c)
          \/ Recv(c)
          \/ WaitTimeout(c)
    \/ ModemReply

SpecCmd == InitWith({TRUE}, {TRUE}, 1, AllCall, MaxTok, 0) /\ [][NextCmd]_vars

\* closing: two callers of Close beside the callers of exec and SendSMS and one
\* Loop, with a modem that stays silent
NextClose ==
    \/ \E l \in Loops :
          \/ LoopCall(l)
          \/ LoopStart(l)
          \/ \E c \in Callers : LoopAccept(l, c)
    \/ \E c \in Callers :
          \/ Call(c)
          \/ Enter(c)
          \/ Expire(c)
          \/ SendAbort(c)
          \/ Recv(c)
          \/ WaitTimeout(c)
    \/ \E k \in Closers : CloseCall(k) \/ CloseDo(k)

SpecClose == InitWith(BOOLEAN, {TRUE}, 1, AllCall, 0, 0) /\ [][NextClose]_vars

\* two calls of Loop on one Modem, a modem that sends URCs, and every way a Loop ends
NextLoops ==
    \/ \E l \in Loops :
          \/ LoopCall(l)
          \/ LoopStart(l)
          \/ ScanToken(l)
          \/ ScanStop(l)
          \/ ScanSendErr(l)
          \/ LoopCancel(l)
          \/ LoopEOF(l)
          \/ LoopScanErr(l)
          \/ LoopToken(l)
    \/ UrcRecv
    \/ CancelCtx
    \/ TransportEnd
    \/ ModemUrc

SpecLoops ==
    InitWith({TRUE}, {TRUE}, 2, [c \in Callers |-> 0], 0, MaxUrc) /\ [][NextLoops]_vars

\* a flood of URCs that nobody reads, beside one Loop and one caller of exec
\* whose context never becomes done and who calls when m.urcChan is all but full
LateCall(c) == Len(urcChan) >= UrcCap - 1 /\ Call(c)

NextUrc ==
    \/ \E l \in Loops :
          \/ LoopCall(l)
          \/ LoopStart(l)
          \/ ScanToken(l)
          \/ ScanSend(l)
          \/ LoopToken(l)
          \/ \E c \in Callers : LoopAccept(l, c)
    \/ \E c \in Callers :
          \/ LateCall(c)
          \/ Enter(c)
          \/ Recv(c)
    \/ ModemReply
    \/ ModemUrc

SpecUrc ==
    InitWith({TRUE}, {FALSE}, 1, [c \in Callers |-> IF c = 2 THEN 1 ELSE 0], 1,
             UrcCap + UrcOver) /\ [][NextUrc]_vars

\* commands and URCs together: one Loop, one caller of exec, a modem that
\* answers and sends URCs
NextMix ==
    \/ \E l \in Loops :
          \/ LoopCall(l)
          \/ LoopStart(l)
          \/ ScanToken(l)
          \/ LoopToken(l)
          \/ \E c \in Callers : LoopAccept(l, c)
    \/ \E c \in Callers :
          \/ Call(c)
          \/ Enter(c)
          \/ Expire(c)
          \/ SendAbort(c)
          \/ Recv(c)
          \/ WaitTimeout(c)
    \/ ModemReply
    \/ ModemUrc

SpecMix ==
    InitWith({TRUE}, {TRUE}, 1, [c \in Callers |-> IF c = 2 THEN MaxCalls ELSE 0],
             MaxTok, MaxUrc) /\ [][NextMix]_vars

\* commands to a modem that never ends an answer, from callers whose contexts
\* have a deadline and callers whose contexts have none
NextLive ==
    \/ \E l \in Loops :
          \/ LoopCall(l)
          \/ LoopStart(l)
          \/ ScanToken(l)
          \/ LoopToken(l)
          \/ \E c \in Callers : LoopAccept(l, c)
    \/ \E c \in Callers :
          \/ Call(c)
          \/ Enter(c)
          \/ Expire(c)
          \/ SendAbort(c)
          \/ Recv(c)
          \/ WaitTimeout(c)
    \/ ModemData

\* a deadline passes in the end, and a caller that can go on does
Fairness ==
    \A c \in Callers :
        /\ WF_vars(Expire(c))
        /\ WF_vars(SendAbort(c))
        /\ WF_vars(Recv(c))
        /\ WF_vars(WaitTimeout(c))

SpecLive ==
    InitWith({TRUE}, BOOLEAN, 1, [c \in Callers |-> IF c = 1 THEN MaxCalls ELSE 1],
             MaxTok, 0) /\ [][NextLive]_vars /\ Fairness

\* as SpecLive with one caller, on the Modem New makes of the builder's Config:
\* the caller's context has a deadline or not, and exec does with it what it
\* does
SpecAt ==
    InitWith({TRUE}, {ExecTimed(h, NewModem(BuilderConfig)) : h \in BOOLEAN}, 1,
             [c \in Callers |-> IF c = 1 THEN MaxCalls ELSE 0], MaxTok, 0)
    /\ [][NextLive]_vars /\ Fairness

\* the lines that end an answer, and a line of data
FinalTexts == {OK, ERROR, NoCarrier, CmeErrorText, CmsErrorText}

\* a modem whose answers are a line of data or a Final line
ModemFinal == ModemSays({DataText} \cup FinalTexts)

\* answers that end with a Final line: one Loop, one caller of exec whose context
\* never becomes done
NextFinal ==
    \/ \E l \in Loops :
          \/ LoopCall(l)
          \/ LoopStart(l)
          \/ ScanToken(l)
          \/ LoopToken(l)
          \/ \E c \in Callers : LoopAccept(l, c)
    \/ \E c \in Callers :
          \/ Call(c)
          \/ Enter(c)
          \/ Recv(c)
    \/ ModemFinal

SpecFinal ==
    InitWith({TRUE}, {FALSE}, 1, [c \in Callers |-> IF c = 2 THEN MaxCalls ELSE 0],
             MaxTok, 0) /\ [][NextFinal]_vars

\* a modem whose answers have blank lines, two kinds of data line, and end with
\* OK or the prompt
ModemLines == ModemSays({<<>>, DataText, CsqText, OK, Prompt})

\* answers of several lines, with URCs among them: one Loop, one caller of exec
\* whose context never becomes done
NextData ==
    \/ \E l \in Loops :
          \/ LoopCall(l)
          \/ LoopStart(l)
          \/ ScanToken(l)
          \/ LoopToken(l)
          \/ \E c \in Callers : LoopAccept(l, c)
    \/ \E c \in Callers :
          \/ Call(c)
          \/ Enter(c)
          \/ Recv(c)
    \/ ModemLines
    \/ ModemUrc

SpecData ==
    InitWith({TRUE}, {FALSE}, 1, [c \in Callers |-> IF c = 2 THEN MaxCalls ELSE 0],
             MaxTok + 1, MaxUrc) /\ [][NextData]_vars

\* the read side of the Transport ends, by EOF or by an error, under one Loop
\* and one caller of exec whose context never becomes done
NextEnd ==
    \/ \E l \in Loops :
          \/ LoopCall(l)
          \/ LoopStart(l)
          \/ ScanToken(l)
          \/ ScanStop(l)
          \/ ScanSendErr(l)
          \/ LoopToken(l)
          \/ LoopEOF(l)
          \/ LoopScanErr(l)
          \/ \E c \in Callers : LoopAccept(l, c)
    \/ \E c \in Callers :
          \/ Call(c)
          \/ Enter(c)
          \/ Recv(c)
    \/ ModemReply
    \/ TransportEnd

\* the scanning goroutine and the Loop go on when they can
FairnessLoop ==
    \A l \in Loops :
        /\ WF_vars(ScanToken(l))
        /\ WF_vars(ScanStop(l))
        /\ WF_vars(ScanSendErr(l))
        /\ WF_vars(LoopToken(l))
        /\ WF_vars(LoopEOF(l))
        /\ WF_vars(LoopScanErr(l))

SpecEnd ==
    /\ InitWith({TRUE}, {FALSE}, 1, [c \in Callers |-> IF c = 2 THEN MaxCalls ELSE 0],
                MaxTok, 0)
    /\ [][NextEnd]_vars
    /\ FairnessLoop

\* the owner cancels the context of a Loop on a Transport that stays open:
\* one Loop, two callers, a modem that answers; nobody calls Close
NextCancel ==
    \/ \E l \in Loops :
          \/ LoopCall(l)
          \/ LoopStart(l)
          \/ ScanToken(l)
          \/ LoopToken(l)
          \/ LoopCancel(l)
          \/ LoopEOF(l)
          \/ \E c \in Callers : LoopAccept(l, c)
    \/ \E c \in Callers :
          \/ Call(c)
          \/ Enter(c)
          \/ Recv(c)
    \/ CancelCtx
    \/ ModemReply

\* the scanning goroutine and the Loop go on when they can, the select takes its
\* ctx.Done() arm in the end
FairnessCancel ==
    \A l \in Loops :
        /\ WF_vars(ScanToken(l))
        /\ WF_vars(LoopToken(l))
        /\ WF_vars(LoopEOF(l))
        /\ WF_vars(LoopCancel(l))

SpecCancel ==
    /\ InitWith({TRUE}, {FALSE}, 1, AllCall, MaxTok, 0)
    /\ [][NextCancel]_vars
    /\ FairnessCancel

\* the owner calls Loop when no call of Loop is in progress
LoopCallAgain(l) ==
    /\ \A m \in Loops : lpc[m] \in {"idle", "done"}
    /\ LoopCall(l)

\* an owner that runs Loop, cancels its context, and calls Loop again after it
\* returned, on a Transport that stays open: two calls of Loop, one after the
\* other, one caller of exec, a modem that answers
NextRestart ==
    \/ \E l \in Loops :
          \/ LoopCallAgain(l)
          \/ LoopStart(l)
          \/ ScanToken(l)
          \/ LoopToken(l)
          \/ LoopCancel(l)
          \/ \E c \in Callers : LoopAccept(l, c)
    \/ \E c \in Callers :
          \/ Call(c)
          \/ Enter(c)
          \/ Recv(c)
    \/ CancelCtx
    \/ ModemReply

SpecRestart ==
    InitWith({TRUE}, {FALSE}, 2, [c \in Callers |-> IF c = 1 THEN MaxCalls ELSE 0],
             MaxTok, 0) /\ [][NextRestart]_vars

\* a modem that speaks unasked between the commands: one Loop, one caller of
\* exec whose context never becomes done
NextStale ==
    \/ \E l \in Loops :
          \/ LoopCall(l)
          \/ LoopStart(l)
          \/ ScanToken(l)
          \/ LoopToken(l)
          \/ \E c \in Callers : LoopAccept(l, c)
    \/ \E c \in Callers :
          \/ Call(c)
          \/ Enter(c)
          \/ Recv(c)
    \/ ModemReply
    \/ ModemUnasked

SpecStale ==
    InitWith({TRUE}, {FALSE}, 1, [c \in Callers |-> IF c = 2 THEN MaxCalls ELSE 0],
             MaxTok, 0) /\ [][NextStale]_vars

\* exec on a Modem whose Loop was never called or has returned: the Modem New
\* makes of the builder's Config, no Loop or one, one caller whose contexts have
\* a deadline or none; the read side may end, the owner may cancel the Loop
NextDead ==
    \/ \E l \in Loops :
          \/ LoopCall(l)
          \/ LoopStart(l)
          \/ ScanToken(l)
          \/ ScanStop(l)
          \/ ScanSendErr(l)
          \/ LoopToken(l)
          \/ LoopCancel(l)
          \/ LoopEOF(l)
          \/ LoopScanErr(l)
          \/ \E c \in Callers : LoopAccept(l, c)
    \/ \E c \in Callers :
          \/ Call(c)
          \/ Enter(c)
          \/ Expire(c)
          \/ SendAbort(c)
          \/ Recv(c)
          \/ WaitTimeout(c)
    \/ CancelCtx
    \/ ModemReply
    \/ TransportEnd

\* deadlines pass, exec goes on when it can, and so do the Loop and its
\* scanning goroutine
FairnessDead ==
    /\ Fairness
    /\ FairnessLoop
    /\ \A c \in Callers : WF_vars(Enter(c))
    /\ \A l \in Loops : WF_vars(LoopCancel(l))

InitDead ==
    \E n \in {0, 1} :
        InitWith({TRUE}, {ExecTimed(h, NewModem(BuilderConfig)) : h \in BOOLEAN}, n,
                 [c \in Callers |-> IF c = 1 THEN MaxCalls ELSE 0], MaxTok, 0)

SpecDead == InitDead /\ [][NextDead]_vars /\ FairnessDead

\* a modem that answers AT+CMGS and the body: the prompt, a line of data that
\* holds the prompt marker, OK, or an error
ModemSms == ModemSays({MarkerText, OK, CmsErrorText, Prompt})

\* SendSMS: one Loop, caller 1 calling exec or SendSMS with a context that may
\* become done, on a link that may end
NextSms ==
    \/ \E l \in Loops :
          \/ LoopCall(l)
          \/ LoopStart(l)
          \/ ScanToken(l)
          \/ ScanStop(l)
          \/ ScanSendErr(l)
          \/ LoopToken(l)
          \/ LoopEOF(l)
          \/ LoopScanErr(l)
          \/ \E c \in Callers : LoopAccept(l, c)
    \/ \E c \in Callers :
          \/ Call(c)
          \/ Enter(c)
          \/ Expire(c)
          \/ SendAbort(c)
          \/ Recv(c)
          \/ WaitTimeout(c)
    \/ ModemSms
    \/ TransportEnd

SpecSms ==
    InitWith({TRUE}, BOOLEAN, 1, [c \in Callers |-> IF c = 1 THEN MaxCalls ELSE 0],
             MaxTok, 0) /\ [][NextSms]_vars

\* SendSMS answered twice: one Loop, caller 1 calling exec or SendSMS with a
\* context that never becomes done, on a link that stays up
NextSend ==
    \/ \E l \in Loops :
          \/ LoopCall(l)
          \/ LoopStart(l)
          \/ ScanToken(l)
          \/ LoopToken(l)
          \/ \E c \in Callers : LoopAccept(l, c)
    \/ \E c \in Callers :
          \/ Call(c)
          \/ Enter(c)
          \/ Recv(c)
    \/ ModemSms

SpecSend ==
    InitWith({TRUE}, {FALSE}, 1, [c \in Callers |-> IF c = 1 THEN MaxCalls ELSE 0],
             MaxTok + 1, 0) /\ [][NextSend]_vars

\* New: a Config from the builder, with or without a dialer and a SIM PIN,
\* then New on a modem that may say anything
InitNew ==
    /\ SessionWith({FALSE}, {FALSE}, 0, [c \in Callers |-> 0], 0, 0)
    /\ bcfg \in [dialer : {"none", "works", "fails"}, pin : BOOLEAN]
    /\ bbuilt = NewErr("none", <<>>)
    /\ bpc = "build"
    /\ bdone = FALSE
    /\ bretries = 0
    /\ bdials = 0
    /\ bcloses = 0
    /\ bex = <<>>
    /\ bsim = <<>>
    /\ bret = NoNew
    /\ NoScan
    /\ NoDial
    /\ NoBody

NextNew ==
    \/ Build
    \/ NewDial
    \/ NewExpire
    \/ InitAt
    \/ InitEchoOff
    \/ InitVerboseErrors
    \/ InitSimStatus
    \/ InitPin
    \/ WaitTick
    \/ WaitCancel
    \/ InitTextMode
    \/ ReadBlocks

SpecNew == InitNew /\ [][NextNew]_vars

\* New goes on when it can, and the deadline of the bring-up passes in the end
FairnessNew ==
    /\ WF_vars(NewExpire)
    /\ WF_vars(Build \/ NewDial \/ InitAt \/ InitEchoOff \/ InitVerboseErrors
                  \/ InitSimStatus \/ InitPin \/ WaitTick \/ WaitCancel
                  \/ InitTextMode)

SpecNewLive == InitNew /\ [][NextNew]_vars /\ FairnessNew

\* a Scanner over an input of up to MaxParts pieces and a tail
InitSplit ==
    /\ SessionWith({FALSE}, {FALSE}, 0, [c \in Callers |-> 0], 0, 0)
    /\ Constructed
    /\ sparts \in UNION {[1..n -> Pieces] : n \in 0..MaxParts}
    /\ stail \in Tails
    /\ srest = Bytes(sparts, stail)
    /\ sbuf = <<>>
    /\ seof = FALSE
    /\ sneed = FALSE
    /\ sdone = FALSE
    /\ stoks = <<>>
    /\ sused = 0
    /\ slast = NoSplit
    /\ ctok = <<>>
    /\ ckind = "none"
    /\ NoDial
    /\ NoBody

NextSplit == ScanRead \/ ScanSplit

SpecSplit == InitSplit /\ [][NextSplit]_vars

\* a call of Classify with one of ClassifyTexts
InitClassify ==
    /\ SessionWith({FALSE}, {FALSE}, 0, [c \in Callers |-> 0], 0, 0)
    /\ Constructed
    /\ sparts = <<>>
    /\ stail = <<>>
    /\ srest = <<>>
    /\ sbuf = <<>>
    /\ seof = TRUE
    /\ sneed = FALSE
    /\ sdone = TRUE
    /\ stoks = <<>>
    /\ sused = 0
    /\ slast = NoSplit
    /\ ctok \in ClassifyTexts
    /\ ckind = "none"
    /\ NoDial
    /\ NoBody

NextClassify == ClassifyCall

SpecClassify == InitClassify /\ [][NextClassify]_vars

\* ------------------------------------------------------------- SerialDialer
\* the port names tried: none, and two device paths
PortNames == {<<>>, <<"t">>, <<"n">>}

\* ctx.Err() of a context that is done
CtxErr(c) == IF c = "canceled" THEN NewErr("context.Canceled", <<>>)
             ELSE NewErr("context.DeadlineExceeded", <<>>)

CtxIsDone(c) == c \in {"canceled", "expired"}

\* Dial up to its select: the two argument checks, make(chan result, 1) and the
\* go statement
DialStart ==
    /\ dpc = "start"
    /\ dwas' = dctx
    /\ IF dname = <<>>
       THEN /\ dret' = [transport |-> FALSE,
                        err |-> NewErr("errorString",
                                       <<"gsm: serial port name is required">>)]
            /\ dpc' = "returned"
            /\ UNCHANGED dopc
       ELSE IF dctx = "nil"
       THEN /\ dret' = [transport |-> FALSE,
                        err |-> NewErr("errorString", <<"gsm: context is nil">>)]
            /\ dpc' = "returned"
            /\ UNCHANGED dopc
       ELSE /\ dpc' = "select"
            /\ dopc' = "open"
            /\ UNCHANGED dret
    /\ UNCHANGED <<gateway, dname, dmode, dctx, dch, dkpc, dport>>

\* the first goroutine: serial.Open returns a port or an error, and the result
\* goes into ch, which has room for it
DialOpen ==
    /\ dopc = "open"
    /\ \E opened \in BOOLEAN :
          /\ dport' = IF opened THEN "open" ELSE "none"
          /\ dch' = Append(dch, [p |-> opened,
                                 err |-> IF opened THEN NoErr
                                         ELSE NewErr("serial.PortError", <<>>)])
    /\ dopc' = "done"
    /\ UNCHANGED <<gateway, dname, dmode, dctx, dwas, dpc, dkpc, dret>>

\* the select takes case <-ctx.Done(): the draining goroutine starts, Dial
\* returns nil and ctx.Err()
DialSelectDone ==
    /\ dpc = "select"
    /\ CtxIsDone(dctx)
    /\ dkpc' = "recv"
    /\ dret' = [transport |-> FALSE, err |-> CtxErr(dctx)]
    /\ dpc' = "returned"
    /\ UNCHANGED <<gateway, dname, dmode, dctx, dwas, dopc, dch, dport>>

\* the select takes case r := <-ch
DialSelectResult ==
    /\ dpc = "select"
    /\ dch # <<>>
    /\ LET r == Head(dch)
       IN dret' = IF r.err # NoErr
                  THEN [transport |-> FALSE,
                        err |-> Errorf(<<"open serial port ">> \o Quote(dname), r.err)]
                  ELSE [transport |-> r.p, err |-> NoErr]
    /\ dch' = Tail(dch)
    /\ dpc' = "returned"
    /\ UNCHANGED <<gateway, dname, dmode, dctx, dwas, dopc, dkpc, dport>>

\* the draining goroutine: r := <-ch, and Close of a port that was opened
DialDrain ==
    /\ dkpc = "recv"
    /\ dch # <<>>
    /\ LET r == Head(dch)
       IN dport' = IF r.err = NoErr /\ r.p THEN "closed" ELSE dport
    /\ dch' = Tail(dch)
    /\ dkpc' = "done"
    /\ UNCHANGED <<gateway, dname, dmode, dctx, dwas, dpc, dopc, dret>>

\* the owner of ctx cancels it, or its deadline passes
DialCtxDone ==
    /\ dctx \in {"live", "timed"}
    /\ dctx' = IF dctx = "live" THEN "canceled" ELSE "expired"
    /\ UNCHANGED <<gateway, dname, dmode, dwas, dpc, dopc, dch, dkpc, dport, dret>>

\* a SerialDialer with or without a port name and a Mode, and one call of Dial
\* with a context of any kind
InitDial ==
    /\ SessionWith({FALSE}, {FALSE}, 0, [c \in Callers |-> 0], 0, 0)
    /\ Constructed
    /\ NoScan
    /\ dname \in PortNames
    /\ dmode \in BOOLEAN
    /\ dctx \in {"nil", "background", "live", "canceled", "timed", "expired"}
    /\ dwas = "none"
    /\ dpc = "start"
    /\ dopc = "off"
    /\ dch = <<>>
    /\ dkpc = "off"
    /\ dport = "none"
    /\ dret = NoDialRet
    /\ NoBody

NextDial ==
    \/ DialStart
    \/ DialOpen
    \/ DialSelectDone
    \/ DialSelectResult
    \/ DialDrain
    \/ DialCtxDone

SpecDial == InitDial /\ [][NextDial]_vars

\* ------------------------------------------------------------- the message body
\* unicode.IsSpace, for the characters used here
IsSpace(ch) == ch \in {" ", "\t", "\n", "\r"}

\* strings.TrimSpace: s without the white space at its two ends
RECURSIVE TrimLeft(_)
TrimLeft(s) == IF s # <<>> /\ IsSpace(Head(s)) THEN TrimLeft(Tail(s)) ELSE s

RECURSIVE TrimRight(_)
TrimRight(s) ==
    IF s # <<>> /\ IsSpace(s[Len(s)]) THEN TrimRight(SubSeq(s, 1, Len(s) - 1)) ELSE s

TrimSpace(s) == TrimRight(TrimLeft(s))

\* the characters of the messages, and the messages of up to MaxMsg of them
MsgChars == {"a", " ", "\n", "\r"}
Messages == UNION {[1..n -> MsgChars] : n \in 0..MaxMsg}

\* SendSMS after the prompt: messageCmd := message + at.CtrlZ, handed to exec
BodyExec ==
    /\ wpc = "sms"
    /\ wcmd' = wmsg \o CtrlZ
    /\ wpc' = "exec"
    /\ UNCHANGED <<sender, wmsg, wbytes>>

\* the Loop takes the request: wire := strings.TrimSpace(req.cmd) + "\r", and
\* the Write
BodyWrite ==
    /\ wpc = "exec"
    /\ wbytes' = TrimSpace(wcmd) \o <<"\r">>
    /\ wpc' = "written"
    /\ UNCHANGED <<sender, wmsg, wcmd>>

\* the body phase of SendSMS for any message
InitBody ==
    /\ SessionWith({FALSE}, {FALSE}, 0, [c \in Callers |-> 0], 0, 0)
    /\ Constructed
    /\ NoScan
    /\ NoDial
    /\ wmsg \in Messages
    /\ wpc = "sms"
    /\ wcmd = <<>>
    /\ wbytes = <<>>

NextBody == BodyExec \/ BodyWrite

SpecBody == InitBody /\ [][NextBody]_vars

\* ------------------------------------------------------------- claims
\* Loop call l takes caller c's request from m.commands in this step
Takes(l, c) ==
    /\ cpc[c] = "send"
    /\ cpc'[c] = "wait"
    /\ rinfo'[creq[c]].by = l

\* C1: while a Loop holds a current command it never takes another
\* commandRequest from m.commands
C1_OneOutstanding ==
    [][\A l \in Loops : cur[l] # 0 => \A c \in Callers : ~Takes(l, c)]_vars

\* C2: every request a Loop has taken gets at most one commandResponse on its
\* respChan, and exactly one once the Loop no longer holds it
C2_ExactlyOneResult ==
    \A r \in Reqs :
        /\ nres[r] <= 1
        /\ (rinfo[r].by # 0 /\ (\A l \in Loops : cur[l] # r)) => nres[r] = 1

\* the successful writes, in order
Written == SelectSeq(wire, LAMBDA w : w.ok)

\* C3: between the write of a SendSMS call's AT+CMGS and the write of the same
\* call's body no other caller's command is written
C3_NoInterleaving ==
    \A i, j \in 1..Len(Written) :
        (/\ i < j
         /\ rinfo[Written[i].req].cmd = "CMGS"
         /\ rinfo[Written[j].req].cmd = "BODY"
         /\ rinfo[Written[i].req].caller = rinfo[Written[j].req].caller
         /\ rinfo[Written[i].req].call = rinfo[Written[j].req].call)
        => \A m \in (i + 1)..(j - 1) :
               rinfo[Written[m].req].caller = rinfo[Written[i].req].caller

\* C5: what exec returns for a request holds no line that the modem said in
\* answer to a request that had timed out before this one was made
C5_NoLateTokens ==
    \A r \in Reqs : \A i \in 1..Len(rret[r].src) :
        rret[r].src[i] \notin rinfo[r].expired

\* C6: no two calls of Loop run on one Modem at a time, and while one runs
\* m.loopRunning is set, so that a later call returns ErrLoopRunning
C6_OneLoop ==
    /\ Cardinality({l \in Loops : lpc[l] = "select"}) <= 1
    /\ (\E l \in Loops : lpc[l] = "select") => loopRunning

\* C7: Transport.Close is called at most once, whatever the number of calls of
\* Close, and at most one call of Close returns its result
C7_CloseOnce ==
    /\ trCloses <= 1
    /\ Cardinality({k \in Closers : kret[k] = "transport.Close"}) <= 1

\* exec returns error e to caller c in this step without making a request
Rejected(c, e) ==
    /\ cpc'[c] = "idle"
    /\ cret'[c].err.kind = e
    /\ nextReq' = nextReq
    /\ rinfo' = rinfo
    /\ wire' = wire

\* C8: an exec begun after a Close returned fails with ErrAlreadyClosed, and one
\* on an open Modem without Transport fails with ErrNotInitialized; neither
\* makes a request nor writes
C8_RejectClosed ==
    [][\A c \in Callers :
          (cpc[c] = "enter" /\ cpc'[c] # "enter")
          => /\ (\E k \in Closers : kpc[k] = "done")
                    => Rejected(c, "ErrAlreadyClosed")
             /\ (~closed /\ ~hasTransport) => Rejected(c, "ErrNotInitialized")]_vars

\* C8 witness: on one Modem an exec was refused for want of a Transport and,
\* after Close returned, another was refused as closed
C8_Witness ==
    /\ \E k \in Closers : kpc[k] = "done"
    /\ \E c, d \in Callers :
          /\ cret[c].err.kind = "ErrAlreadyClosed"
          /\ cret[d].err.kind = "ErrNotInitialized"

\* C8 witness on a Modem made by New: SendSMS refused after Close returned
C8_WitnessSms ==
    /\ hasTransport
    /\ \E c \in Callers : cop[c] = "sms" /\ cret[c].err.kind = "ErrAlreadyClosed"

\* exec returns to caller c in this step
Returns(c) == cpc[c] \in {"send", "wait"} /\ cpc'[c] \notin {"send", "wait"}

\* the modem has not said a Final or Prompt line in answer to any command
NoTerminal == Len(modemQ) = Len(Written)

\* C4: against a modem that says no Final and no Prompt line, an exec whose
\* context has a deadline returns in the end, and every exec that returns
\* returns a timeout error
C4_TimesOut ==
    /\ \A c \in Callers :
          (cpc[c] \in {"send", "wait"} /\ cdl[c]) ~> (cpc[c] \notin {"send", "wait"})
    /\ [][\A c \in Callers :
             (Returns(c) /\ NoTerminal)
             => rret'[creq[c]].err.kind \in
                    {"command timeout", "command cancelled before sending"}]_vars
    /\ []NoTerminal

\* C4 witness: a command was written, the modem never said a byte, and exec
\* returned "command timeout"
C4_Witness ==
    /\ tokLeft = MaxTok
    /\ rx = <<>>
    /\ \E r \in Reqs :
          /\ rinfo[r].by # 0
          /\ \E i \in 1..Len(Written) : Written[i].req = r
          /\ rret[r].err.kind = "command timeout"

\* Loop call l handles a URC token in this step
UrcStep(l) ==
    /\ lpc[l] = "select"
    /\ tokens[l] # <<>>
    /\ Classify(Head(tokens[l]).tok) = "TypeURC"
    /\ tokens'[l] = Tail(tokens[l])

\* C9: a Loop that has a token to handle can always handle it, whatever m.urcChan
\* holds; a URC that finds m.urcChan full is dropped, m.urcChan keeps its
\* contents, the command keeps its state and the Loop is back at its select
C9_NeverBlocks ==
    /\ [](\A l \in Loops : (lpc[l] = "select" /\ tokens[l] # <<>>) => ENABLED LoopToken(l))
    /\ [][\A l \in Loops :
             (UrcStep(l) /\ Len(urcChan) >= UrcCap)
             => /\ urcChan' = urcChan
                /\ lpc'[l] = "select"
                /\ cur'[l] = cur[l]
                /\ lines'[l] = lines[l]
                /\ respChan' = respChan]_vars

\* C9 witness: a URC was dropped at a full m.urcChan while a command was
\* outstanding, and that command returned its answer without error
C9_Witness ==
    /\ Len(urcChan) = UrcCap
    /\ "dropped" \in urcBusy
    /\ \E r \in Reqs : rret[r].err = Nil /\ Contains(rret[r].response, OK)

\* C10 as stated: a URC token leaves the command as it was
C10_UrcLeavesCommand ==
    [][\A l \in Loops :
          UrcStep(l) => /\ cur'[l] = cur[l]
                        /\ lines'[l] = lines[l]
                        /\ respChan' = respChan]_vars

\* the response of the deadline test that follows every token
TimedOut == Resp(<<>>, Err("command timeout", <<>>))

\* C10: a URC token is offered to m.urcChan with or without a command; it is
\* never added to the lines of the command and never ends it with an answer;
\* the step changes the command only if its context is done, and then fails it
\* with "command timeout"; no text that exec returns holds a URC
C10_UrcOnlyTimesOut ==
    /\ [][\A l \in Loops :
             UrcStep(l)
             => /\ urcChan' = IF Len(urcChan) < UrcCap
                                 THEN Append(urcChan, Head(tokens[l]).tok)
                                 ELSE urcChan
                /\ IF cur[l] # 0 /\ ReqDone(cur[l])
                      THEN /\ cur'[l] = 0
                           /\ lines'[l] = <<>>
                           /\ respChan' = [respChan EXCEPT ![cur[l]] = Append(@, TimedOut)]
                      ELSE /\ cur'[l] = cur[l]
                           /\ lines'[l] = lines[l]
                           /\ respChan' = respChan]_vars
    /\ [](\A r \in Reqs :
             /\ ~Contains(rret[r].response, UrcNewMsg)
             /\ ~Contains(rret[r].response, UrcCall)
             /\ \A l \in Loops : \A i \in 1..Len(lines[l]) :
                    Classify(lines[l][i].tok) # "TypeURC")

\* C10 witness: a URC came while a command was outstanding and went to
\* m.urcChan, and the command returned the lines of its answer and no more
C10_Witness ==
    /\ "sent" \in urcBusy
    /\ \E r \in Reqs :
          /\ rret[r].err = Nil
          /\ rret[r].response = Join(<<DataText, OK>>)

\* C10 witness of the deadline test: a URC token made the Loop fail a command
\* whose context was done
C10_WitnessTimeout ==
    /\ "sent" \in urcBusy
    /\ \E r \in Reqs : \E l \in Loops :
          /\ respChan[r] = <<TimedOut>>
          /\ tokLeft = MaxTok
          /\ cur[l] = 0

\* the non-empty tokens the modem has sent in answer to request r, in order
SaidFor(r) == SelectSeq(said, LAMBDA t : t.re = r /\ t.tok # <<>>)

\* the texts of a sequence of tokens
Texts(ts) == [i \in 1..Len(ts) |-> ts[i].tok]

\* exec has returned for request r
Returned(r) == rret[r].err.kind # "none"

\* C11: when a Final token ended a command, exec returns the lines of the
\* answer joined by newlines, the Final token last; the error is nil exactly
\* when that token is OK, and otherwise reads as the token
C11_FinalResult ==
    \A r \in Reqs :
        Returned(r)
        => LET mine == SaidFor(r)
               last == mine[Len(mine)].tok
           IN  /\ mine # <<>>
               /\ Classify(last) = "TypeFinal"
               /\ rret[r].response = Join(Texts(mine))
               /\ (rret[r].err = Nil) <=> (last = OK)
               /\ last # OK => ErrorText(rret[r].err) = last

\* C11 witness: exec returned a line of data and +CME ERROR: 30, and the error
\* reads +CME ERROR: 30
C11_Witness ==
    \E r \in Reqs :
        /\ rret[r].response = Join(<<DataText, CmeErrorText>>)
        /\ ErrorText(rret[r].err) = CmeErrorText

\* C11 witness: NO CARRIER alone
C11_WitnessNoCarrier ==
    \E r \in Reqs :
        /\ rret[r].response = NoCarrier
        /\ ErrorText(rret[r].err) = NoCarrier

\* s ends with p
HasSuffix(s, p) ==
    /\ Len(p) <= Len(s)
    /\ SubSeq(s, Len(s) - Len(p) + 1, Len(s)) = p

\* Loop call l handles a Prompt token in this step, with a command outstanding
PromptStep(l) ==
    /\ lpc[l] = "select"
    /\ tokens[l] # <<>>
    /\ Classify(Head(tokens[l]).tok) = "TypePrompt"
    /\ tokens'[l] = Tail(tokens[l])
    /\ cur[l] # 0

\* C12: a Prompt token ends the outstanding command and leaves the Loop without
\* one; exec returns the lines of the answer, the prompt last, and a nil error,
\* though the modem said no OK
C12_PromptEnds ==
    /\ [][\A l \in Loops :
             PromptStep(l)
             => /\ cur'[l] = 0
                /\ lines'[l] = <<>>
                /\ respChan'[cur[l]] =
                       <<Resp(Append(lines[l], Head(tokens[l])), Nil)>>]_vars
    /\ [](\A r \in Reqs :
             (Returned(r) /\ SaidFor(r)[Len(SaidFor(r))].tok = Prompt)
             => /\ rret[r].err = Nil
                /\ rret[r].response = Join(Texts(SaidFor(r)))
                /\ HasSuffix(rret[r].response, Prompt)
                /\ \A i \in 1..Len(SaidFor(r)) : SaidFor(r)[i].tok # OK)

\* C12 witness: exec returned a line of data and the prompt, without error, and
\* the Loop has no command
C12_Witness ==
    /\ \E r \in Reqs :
          /\ rret[r].response = Join(<<DataText, Prompt>>)
          /\ rret[r].err = Nil
    /\ \A l \in Loops : cur[l] = 0

\* C13: while a command is outstanding the Loop holds the non-empty tokens the
\* modem sent in answer to it, as far as it has read them, in the order sent;
\* what exec returns is all of them: lines of data, then one Final or Prompt
\* token, the last
C13_InOrder ==
    /\ \A l \in Loops :
          cur[l] # 0
          => /\ Len(lines[l]) <= Len(SaidFor(cur[l]))
             /\ lines[l] = SubSeq(SaidFor(cur[l]), 1, Len(lines[l]))
    /\ \A r \in Reqs :
          Returned(r)
          => LET mine == SaidFor(r)
             IN  /\ mine # <<>>
                 /\ rret[r].response = Join(Texts(mine))
                 /\ Classify(mine[Len(mine)].tok) \in {"TypeFinal", "TypePrompt"}
                 /\ \A i \in 1..(Len(mine) - 1) : Classify(mine[i].tok) = "TypeData"

\* C13 witness: two different lines of data, with a URC sent after the first,
\* and OK, returned in the order sent
C13_Witness ==
    /\ \E r \in Reqs : rret[r].response = Join(<<CsqText, DataText, OK>>)
    /\ \E i, j \in 1..Len(said) :
          /\ i < j
          /\ said[i].tok = CsqText
          /\ Classify(said[j].tok) = "TypeURC"
          /\ j < Len(said)

\* Loop call l returns ret in this step
LoopReturns(l, ret) == lpc[l] = "select" /\ lpc'[l] = "done" /\ lret'[l] = ret

\* C14: once the read side is at EOF a running Loop returns io.EOF in the end;
\* when it does, every token the modem sent has been read and handled, and the
\* outstanding command gets io.EOF, which is what its exec returns
C14_EOF ==
    /\ \A l \in Loops :
          (rdState = "eof" /\ lpc[l] = "select") ~> (lpc[l] = "done" /\ lret[l] = "EOF")
    /\ [][\A l \in Loops :
             (LoopReturns(l, "EOF") /\ rdState = "eof")
             => /\ rx = <<>> /\ tokens[l] = <<>> /\ held[l] = NoTok
                /\ cur[l] # 0 =>
                       respChan'[cur[l]] = <<Resp(<<>>, Err("EOF", <<>>))>>]_vars
    /\ [](\A r \in Reqs : \A l \in Loops :
             (rdState = "eof" /\ lret[l] = "EOF" /\ Returned(r))
             => \/ rret[r].err = Err("EOF", <<>>)
                \/ rret[r].err.kind = "write command"
                \/ /\ SaidFor(r) # <<>>
                   /\ Classify(SaidFor(r)[Len(SaidFor(r))].tok)
                          \in {"TypeFinal", "TypePrompt"})

\* C14 witness: the modem sent a line of data, the read side reached EOF, the
\* Loop returned io.EOF and exec returned io.EOF for the command
C14_Witness ==
    /\ rdState = "eof"
    /\ \E l \in Loops : lret[l] = "EOF"
    /\ \E r \in Reqs :
          /\ rret[r].err = Err("EOF", <<>>)
          /\ SaidFor(r) = <<Tok(DataText, r)>>

\* C15: after a read error the Loop never returns plain io.EOF and no exec
\* does; the Loop returns "scanner error" and the outstanding command gets
\* "read error"
C15_ReadError ==
    rdState = "err"
    => /\ \A l \in Loops : lret[l] \in {"none", "scanner error"}
       /\ \A r \in Reqs : rret[r].err.kind # "EOF"

\* C16: a Loop that returns after its context was cancelled, the read side
\* still open, returns context.Canceled, and the command it held gets
\* context.Canceled on its respChan in the step that returns
C16_Cancelled ==
    [][\A l \in Loops :
          (ctxDone /\ rdState = "open" /\ lpc[l] = "select" /\ lpc'[l] = "done")
          => /\ lret'[l] = "canceled"
             /\ cur[l] # 0 =>
                    respChan'[cur[l]] = <<Resp(<<>>, Err("canceled", <<>>))>>]_vars

\* C17: after the context of a running Loop is cancelled, in the end the
\* scanning goroutine has stopped and the Transport is closed
C17_TearsDown ==
    \A l \in Loops :
        (ctxDone /\ lpc[l] # "idle")
        ~> (trCloses > 0 /\ spc[l] = "done")

\* C18: when the write of a command fails, the command gets a "write command"
\* error and the Loop returns
C18_WriteFatal ==
    [][\A l \in Loops : \A c \in Callers :
          (Takes(l, c) /\ ~wire'[Len(wire')].ok)
          => /\ respChan'[creq[c]] = <<Resp(<<>>, Err("write command", <<>>))>>
             /\ lpc'[l] = "done"]_vars

\* request a is the AT+CMGS exec of the SendSMS call whose body exec is request b
CmgsOf(a, b) ==
    /\ rinfo[a].cmd = "CMGS"
    /\ rinfo[b].cmd = "BODY"
    /\ rinfo[a].caller = rinfo[b].caller
    /\ rinfo[a].call = rinfo[b].call

\* the body exec b was written to the Transport
BodyWritten(b) ==
    /\ rinfo[b].cmd = "BODY"
    /\ \E i \in 1..Len(wire) : wire[i].req = b /\ wire[i].ok

\* exec returned, for the AT+CMGS request a, no error and a text with the prompt
\* marker in it
GotMarker(a) == rret[a].err = Nil /\ Contains(rret[a].response, Prompt)

\* the last line of exec's text for request a is the Prompt token
EndedByPrompt(a) ==
    /\ rret[a].err = Nil
    /\ \/ rret[a].response = Prompt
       \/ HasSuffix(rret[a].response, <<"\n">> \o Prompt)

\* the SendSMS call that made request r has returned, and its caller has not
\* called again
CallOver(r) ==
    /\ cpc[rinfo[r].caller] = "idle"
    /\ callsLeft[rinfo[r].caller] = rinfo[r].call

\* C19 (as stated): SendSMS makes its body exec only after its AT+CMGS exec was
\* ended by a Prompt token
C19_BodyAfterPrompt ==
    \A b \in Reqs :
        rinfo[b].cmd = "BODY" => \E a \in Reqs : CmgsOf(a, b) /\ EndedByPrompt(a)

\* C19: SendSMS makes its body exec only after its AT+CMGS exec returned no error
\* and a text that holds the prompt marker "> "; when the AT+CMGS exec returns
\* anything else, SendSMS returns an error and makes no body exec
C19_BodyAfterMarker ==
    /\ \A b \in Reqs :
          rinfo[b].cmd = "BODY" => \E a \in Reqs : CmgsOf(a, b) /\ GotMarker(a)
    /\ \A a \in Reqs :
          (rinfo[a].cmd = "CMGS" /\ Returned(a) /\ ~GotMarker(a))
          => /\ \A b \in Reqs : ~CmgsOf(a, b)
             /\ CallOver(a) => cret[rinfo[a].caller].err.kind \notin {"nil", "none"}

\* the body is on the wire after an AT+CMGS that the prompt ended
C19_Witness ==
    \E a, b \in Reqs :
        /\ CmgsOf(a, b)
        /\ BodyWritten(b)
        /\ rret[a].response = Prompt

\* AT+CMGS was answered by OK alone: SendSMS has returned its error and there is
\* no body exec
C19_WitnessRefused ==
    \E a \in Reqs :
        /\ rinfo[a].cmd = "CMGS"
        /\ rret[a].err = Nil
        /\ rret[a].response = OK
        /\ CallOver(a)
        /\ cret[rinfo[a].caller].err.kind = "did not receive SMS prompt"
        /\ \A b \in Reqs : rinfo[b].cmd # "BODY"

\* C20: when the body exec of SendSMS returns the error of a Final token other
\* than OK, SendSMS returns an error whose text holds that token
C20_SendFailed ==
    \A b \in Reqs :
        (rinfo[b].cmd = "BODY" /\ rret[b].err.kind = "token" /\ CallOver(b))
        => /\ Classify(rret[b].err.text) = "TypeFinal"
           /\ rret[b].err.text # OK
           /\ cret[rinfo[b].caller].err.kind \notin {"nil", "none"}
           /\ Contains(ErrorText(cret[rinfo[b].caller].err), rret[b].err.text)

\* the modem gave the prompt and then refused the body with +CMS ERROR: 500
C20_Witness ==
    \E b \in Reqs :
        /\ rinfo[b].cmd = "BODY"
        /\ BodyWritten(b)
        /\ CallOver(b)
        /\ cret[rinfo[b].caller].err = Wrap("SMS send failed", Err("token", CmsErrorText))

\* the last line of exec's text for request b is OK
EndedByOk(b) ==
    /\ rret[b].err = Nil
    /\ \/ rret[b].response = OK
       \/ HasSuffix(rret[b].response, <<"\n">> \o OK)

\* exec returned, for the body request b, no error and a text with OK in it
GotOk(b) == rret[b].err = Nil /\ Contains(rret[b].response, OK)

\* caller c's last call was SendSMS and has returned
SmsOver(c) ==
    /\ cop[c] = "sms"
    /\ cpc[c] = "idle"
    /\ cret[c].err.kind # "none"

\* requests a and b are the two execs of caller c's last call of SendSMS
LastSms(c, a, b) ==
    /\ CmgsOf(a, b)
    /\ rinfo[a].caller = c
    /\ rinfo[a].call = callsLeft[c]
    /\ Returned(b)

\* C21 (as stated): SendSMS returns nil exactly when the Prompt token ended its
\* AT+CMGS exec and OK ended its body exec
C21_NilIffPromptThenOk ==
    \A c \in Callers :
        SmsOver(c)
        => (cret[c].err = Nil
            <=> \E a, b \in Reqs : LastSms(c, a, b) /\ EndedByPrompt(a) /\ EndedByOk(b))

\* C21: SendSMS returns nil exactly when its AT+CMGS exec returned no error and
\* a text that holds "> " and its body exec returned no error and a text that
\* holds "OK"; so it returns nil when the Prompt token ended the first and OK
\* the second, and an error when the Prompt token ended a body with no "OK" in it
C21_NilIffMarkerThenOk ==
    \A c \in Callers :
        SmsOver(c)
        => /\ cret[c].err = Nil
              <=> \E a, b \in Reqs : LastSms(c, a, b) /\ GotMarker(a) /\ GotOk(b)
           /\ \A a, b \in Reqs :
                 (LastSms(c, a, b) /\ EndedByPrompt(a) /\ EndedByOk(b))
                 => cret[c].err = Nil
           /\ \A a, b \in Reqs :
                 (LastSms(c, a, b) /\ EndedByPrompt(b) /\ ~Contains(rret[b].response, OK))
                 => cret[c].err.kind = "unexpected SMS response"

\* SendSMS has returned nil after the prompt and OK
C21_Witness ==
    \E c \in Callers, a, b \in Reqs :
        /\ SmsOver(c)
        /\ LastSms(c, a, b)
        /\ rret[a].response = Prompt
        /\ rret[b].response = OK
        /\ cret[c].err = Nil

\* the modem answered the body with a second prompt: SendSMS has returned an error
C21_WitnessPromptTwice ==
    \E c \in Callers, a, b \in Reqs :
        /\ SmsOver(c)
        /\ LastSms(c, a, b)
        /\ rret[a].response = Prompt
        /\ rret[b].response = Prompt
        /\ cret[c].err.kind = "unexpected SMS response"

\* C29: Dial is called at most once, and once when there is a dialer; with no
\* dialer Build and New return ErrNoDialer; after a failed Dial New returns no
\* Modem, an error, and has made no exchange
C29_DialOnce ==
    /\ bdials <= 1
    /\ bpc \notin {"build", "new"} => bdials = (IF bcfg.dialer = "none" THEN 0 ELSE 1)
    /\ (bpc # "build" /\ bcfg.dialer = "none") => bbuilt.kind = "ErrNoDialer"
    /\ (bpc = "returned" /\ bcfg.dialer = "none")
       => bret = [modem |-> FALSE, err |-> NewErr("ErrNoDialer", <<>>)] /\ bex = <<>>
    /\ (bpc = "returned" /\ bcfg.dialer = "fails")
       => ~bret.modem /\ bret.err.kind = "dial" /\ bex = <<>> /\ bdials = 1

\* Dial failed and New has returned
C29_Witness == bpc = "returned" /\ bcfg.dialer = "fails" /\ bdials = 1

\* there was no dialer and New has returned
C29_WitnessNoDialer == bpc = "returned" /\ bcfg.dialer = "none" /\ bbuilt.kind = "ErrNoDialer"

\* the commands New has handed to execDirect are, in order, AT, ATE0, AT+CMEE=2,
\* AT+CPIN?, then AT+CPIN="<pin>" and polls of AT+CPIN? if the status held the
\* PIN-required literal and a PIN is set, then AT+CMGF=1, which comes right
\* after a status that held the ready literal
BringUpOrder ==
    /\ Len(bex) >= 1 => bex[1].cmd = "AT"
    /\ Len(bex) >= 2 => bex[2].cmd = "ATE0"
    /\ Len(bex) >= 3 => bex[3].cmd = "AT+CMEE=2"
    /\ Len(bex) >= 4 => bex[4].cmd = "AT+CPIN?"
    /\ \A i \in 5..Len(bex) :
          \/ /\ bex[i].cmd = "AT+CPIN=<pin>"
             /\ i = 5
             /\ bex[4].status = "pin"
             /\ bcfg.pin
          \/ /\ bex[i].cmd = "AT+CPIN?"
             /\ bex[i - 1].cmd \in {"AT+CPIN=<pin>", "AT+CPIN?"}
          \/ /\ bex[i].cmd = "AT+CMGF=1"
             /\ i = Len(bex)
             /\ i # 6
             /\ bex[i - 1].cmd = "AT+CPIN?"
             /\ bex[i - 1].status = "ready"

\* C22 (as stated): the bring-up commands come in their order, and each is
\* written only after the Final or Prompt token of the one before was read
C22_AfterTerminal ==
    /\ BringUpOrder
    /\ \A i \in 2..Len(bex) : (bex[i].ok /\ bex[i - 1].ok) => bex[i - 1].terminal

\* C22: the bring-up commands come in their order, AT+CMGF=1 only after a SIM
\* status that held the ready literal; each command is written only after the
\* Final or Prompt token of the one before was read, except a poll of AT+CPIN?
\* that follows a poll which failed without one
C22_InOrder ==
    /\ BringUpOrder
    /\ \A i \in 2..Len(bex) :
          \/ bex[i - 1].terminal
          \/ i >= 7 /\ bex[i].cmd = "AT+CPIN?" /\ bex[i - 1].cmd = "AT+CPIN?"

\* New has returned a Modem after the PIN, a poll that found the SIM ready, and
\* AT+CMGF=1
C22_Witness ==
    /\ bpc = "returned"
    /\ bret.modem
    /\ Len(bex) >= 7
    /\ bex[5].cmd = "AT+CPIN=<pin>"
    /\ bex[Len(bex)].cmd = "AT+CMGF=1"

\* a poll was written after a poll that ended with no Final or Prompt token
C22_WitnessRetry ==
    \E i \in 7..Len(bex) :
        /\ bex[i].cmd = "AT+CPIN?"
        /\ bex[i].ok
        /\ bex[i - 1].ok
        /\ ~bex[i - 1].terminal

\* New has returned no Modem and an error, after closing the Transport once
Aborted ==
    /\ bpc = "returned"
    /\ ~bret.modem
    /\ bret.err.kind \notin {"nil", "none"}
    /\ bcloses = 1

\* C23: when the SIM status holds the PIN-required literal and no PIN is set, New
\* returns no Modem and ErrSIMPinRequired, has written nothing after AT+CPIN?,
\* and has closed the Transport
C23_PinRequired ==
    (Len(bex) >= 4 /\ bex[4].status = "pin" /\ ~bcfg.pin)
    => /\ Aborted
       /\ bret.err.kind = "ErrSIMPinRequired"
       /\ Len(bex) = 4

\* the modem said +CPIN: SIM PIN and OK, no PIN is set, and New has returned
C23_Witness ==
    /\ bsim = Join(<<SimPin, OK>>)
    /\ ~bcfg.pin
    /\ bpc = "returned"
    /\ bret.err.kind = "ErrSIMPinRequired"

\* exchange i of New is a poll of waitForSIMReady
IsPoll(i) == i >= 6 /\ bex[i].cmd = "AT+CPIN?"

\* C24 (as stated): when an exchange of bring-up fails, New returns no Modem and
\* an error, writes no later command, and closes the Transport once
C24_AnyFailureAborts ==
    \A i \in 1..Len(bex) : bex[i].err # NoErr => (Aborted /\ i = Len(bex))

\* C24: when an exchange of bring-up other than a poll fails, or the polling
\* ends without the SIM ready, New returns no Modem and an error, writes no
\* later command, and closes the Transport once; after a poll that failed only
\* another poll is written; New closes the Transport in no other case
C24_FailureAborts ==
    /\ \A i \in 1..Len(bex) :
          (bex[i].err # NoErr /\ ~IsPoll(i)) => (Aborted /\ i = Len(bex))
    /\ \A i \in 1..Len(bex) :
          (bex[i].err # NoErr /\ IsPoll(i) /\ i < Len(bex)) => IsPoll(i + 1)
    /\ (bpc = "returned" /\ bex # <<>> /\ bex[Len(bex)].cmd # "AT+CMGF=1")
       => Aborted
    /\ (bpc = "returned" /\ bret.err.kind \notin {"nil", "none"} /\ bex # <<>>)
       => Aborted
    /\ bcloses = (IF bpc = "returned" /\ ~bret.modem /\ bex # <<>> THEN 1 ELSE 0)

\* the modem answered ATE0 with ERROR: New has returned its error and closed
\* the Transport
C24_Witness ==
    /\ Aborted
    /\ Len(bex) = 2
    /\ bex[2].err = NewErr("token", ERROR)
    /\ bret.err.wraps = <<"initialize modem", "could not disable echo">>

\* the modem answered a poll with ERROR and the next poll found the SIM ready
C24_WitnessPollAgain ==
    \E i \in 1..Len(bex) :
        /\ IsPoll(i)
        /\ bex[i].err = NewErr("token", ERROR)
        /\ i < Len(bex)
        /\ bex[i + 1].status = "ready"

\* lit is one of the lines of text
HasLine(text, lit) ==
    \/ text = lit
    \/ HasPrefix(text, lit \o <<"\n">>)
    \/ HasSuffix(text, <<"\n">> \o lit)
    \/ Contains(text, <<"\n">> \o lit \o <<"\n">>)

\* C25: when the first AT+CPIN? returns no error and a text whose lines are
\* neither +CPIN: READY nor +CPIN: SIM PIN, New fails with an error
\* "unsupported SIM state" that carries the text, and has written nothing after
\* AT+CPIN?
C25_Unsupported ==
    (/\ Len(bex) >= 4
     /\ bex[4].err = NoErr
     /\ ~HasLine(bsim, SimReady)
     /\ ~HasLine(bsim, SimPin))
    => /\ Aborted
       /\ bret.err.kind = "unsupported SIM state"
       /\ bret.err.text = Quote(bsim)
       /\ Len(bex) = 4

\* the tokens the pieces ps stand for
Expected(ps) == [i \in 1..Len(ps) |-> ps[i].text]

\* every byte of the input is in one place: consumed, held, or not read yet
EachByteOnce ==
    /\ sused + Len(sbuf) + Len(srest) = Len(Bytes(sparts, stail))
    /\ sbuf \o srest
       = SubSeq(Bytes(sparts, stail), sused + 1, Len(Bytes(sparts, stail)))

\* C26 (as stated): an input made of segments with their CRLF and of prompt
\* markers is split into those segments and markers, in order, and every byte
\* is consumed once
C26_SplitsAnyPieces ==
    /\ EachByteOnce
    /\ (sdone /\ stail = <<>>)
       => /\ stoks = Expected(sparts)
          /\ sused = Len(Bytes(sparts, stail))

\* C26: an input made of segments that do not begin with "> ", each with its
\* CRLF, and of prompt markers is split into those segments and markers, in
\* order, an empty token for an empty segment, and every byte is consumed once
C26_SplitsPieces ==
    /\ EachByteOnce
    /\ (/\ sdone
        /\ stail = <<>>
        /\ \A i \in 1..Len(sparts) :
              sparts[i].kind = "segment" => ~HasPrefix(sparts[i].text, Prompt))
       => /\ stoks = Expected(sparts)
          /\ sused = Len(Bytes(sparts, stail))

\* an empty segment and a prompt marker have been split
C26_Witness ==
    /\ sdone
    /\ stail = <<>>
    /\ sparts = <<[kind |-> "segment", text |-> <<>>], [kind |-> "marker", text |-> Prompt]>>
    /\ stoks = <<<<>>, Prompt>>

\* C27 (as stated): a call of Splitter with data that is not empty and holds no
\* CRLF returns all of it as the token at the end of the input, and nothing
\* before the end
C27_RestAtEOF ==
    (slast.called /\ slast.data # <<>> /\ ~Contains(slast.data, CRLF))
    => IF slast.atEOF
          THEN slast.has /\ slast.token = slast.data /\ slast.advance = Len(slast.data)
          ELSE ~slast.has /\ slast.advance = 0

\* C27: a call of Splitter with data that is not empty, holds no CRLF and does
\* not begin with "> " returns all of it as the token at the end of the input
\* (so a lone ">" comes out as ">", not as the prompt), and nothing before the
\* end; data that begins with "> " gives the prompt at once
C27_RestAtEOFNoPrompt ==
    (slast.called /\ slast.data # <<>> /\ ~Contains(slast.data, CRLF))
    => IF HasPrefix(slast.data, Prompt)
          THEN slast.has /\ slast.token = Prompt /\ slast.advance = Len(Prompt)
       ELSE IF slast.atEOF
          THEN /\ slast.has
               /\ slast.token = slast.data
               /\ slast.advance = Len(slast.data)
               /\ slast.token # Prompt
       ELSE ~slast.has /\ slast.advance = 0

\* a lone ">" at the end of the input has come out as the token ">"
C27_Witness ==
    /\ slast.called
    /\ slast.atEOF
    /\ slast.data = <<">">>
    /\ slast.token = <<">">>
    /\ stoks # <<>> /\ stoks[Len(stoks)] = <<">">>

\* a lone ">" before the end of the input: Splitter has asked for more
C27_WitnessWaits ==
    /\ slast.called
    /\ ~slast.atEOF
    /\ slast.data = <<">">>
    /\ sneed

\* C28: Classify gives each token one kind: Prompt to "> " alone; Final to OK,
\* ERROR, NO CARRIER, NO DIALTONE, BUSY, NO ANSWER and to what begins with
\* +CME ERROR: or +CMS ERROR:; URC to what begins with +CMTI: and to RING; Data
\* to the rest
C28_Classify ==
    ckind # "none"
    => /\ ckind \in {"TypePrompt", "TypeFinal", "TypeURC", "TypeData"}
       /\ ckind = "TypePrompt" <=> ctok = Prompt
       /\ ckind = "TypeFinal"
          <=> \/ ctok \in {OK, ERROR, NoCarrier, NoDialtone, Busy, NoAnswer}
              \/ \E n \in 0..Len(ctok) :
                    SubSeq(ctok, 1, n) \in {CmeError, CmsError}
       /\ ckind = "TypeURC"
          <=> \/ ctok = UrcCall
              \/ \E n \in 0..Len(ctok) : SubSeq(ctok, 1, n) = UrcNewMsg
       /\ ckind = "TypeData"
          <=> /\ ctok # Prompt
              /\ ctok \notin {OK, ERROR, NoCarrier, NoDialtone, Busy, NoAnswer, UrcCall}
              /\ \A n \in 0..Len(ctok) :
                    SubSeq(ctok, 1, n) \notin {CmeError, CmsError, UrcNewMsg}

\* a +CMTI: line with its suffix has been classified as a URC
C28_Witness ==
    /\ ctok = UrcNewMsg \o <<" ", "1">>
    /\ ckind = "TypeURC"

\* C30: a call of SerialDialer.Dial whose context was already cancelled when it
\* was made, and that got as far as starting the goroutine that opens the
\* port, returns a nil Transport and context.Canceled, whatever the open does
\* and whenever it does it.
C30_CanceledDial ==
    (dpc = "returned" /\ dwas = "canceled" /\ dopc # "off")
        => dret = [transport |-> FALSE, err |-> NewErr("context.Canceled", <<>>)]

\* a call with a cancelled context, for which the select took ctx.Done()
\* while the result of a successful open was in ch; the port has been closed
C30_WitnessCanceled ==
    /\ dpc = "returned"
    /\ dwas = "canceled"
    /\ dret = [transport |-> FALSE, err |-> NewErr("context.Canceled", <<>>)]
    /\ dkpc = "done"
    /\ dport = "closed"

\* a call with a cancelled context that returned the port
C30_WitnessPort ==
    /\ dpc = "returned"
    /\ dwas = "canceled"
    /\ dret = [transport |-> TRUE, err |-> NoErr]

\* C31: the bytes written in the body phase of SendSMS are the bytes of the
\* message, unchanged, then the byte 0x1A and one carriage return, for every
\* message; white space at either end of the message is kept.
C31_BodyBytes ==
    wpc = "written" => wbytes = wmsg \o CtrlZ \o <<"\r">>

\* a message that ends in white space was written with it
C31_WitnessTrailing ==
    /\ wpc = "written"
    /\ wmsg = <<"a", " ", "\n">>
    /\ wbytes = <<"a", " ", "\n">> \o CtrlZ \o <<"\r">>

\* a message that begins with white space was written without it
C31_WitnessLeading ==
    /\ wpc = "written"
    /\ wmsg = <<" ", "a">>
    /\ wbytes = <<"a">> \o CtrlZ \o <<"\r">>

\* the polls of waitForSIMReady among the exchanges of New
Polls == {i \in 6..Len(bex) : bex[i].cmd = "AT+CPIN?"}

\* the polls made so far, the one that has not returned included
Queries == Cardinality(Polls) + (IF bpc = "poll read" THEN 1 ELSE 0)

\* waitForSIMReady has returned an error
PollingFailed ==
    /\ bpc = "returned"
    /\ ~bret.modem
    /\ Len(bex) >= 5
    /\ bex[5].cmd = "AT+CPIN=<pin>"
    /\ bex[Len(bex)].cmd # "AT+CMGF=1"
    /\ Len(bret.err.wraps) >= 2 => bret.err.wraps[2] # "enter SIM PIN"

\* C32: waitForSIMReady makes at most maxRetries polls, and maxRetries is 60 for
\* the PollConfig init gives it; every poll follows a tick of its own; a poll
\* that returns no error and a text with the ready literal is the last one and
\* ends the waiting with nil; when the waiting fails, the error is "SIM not
\* ready after <n> retries", after maxRetries polls and one more tick, or "SIM
\* not ready: " around the error of the context, which is done.
C32_PollingBounded ==
    /\ Queries <= MaxRetries
    /\ PollMaxRetries(ZeroPollConfig) = 60
    /\ Queries = (IF bretries > MaxRetries THEN MaxRetries ELSE bretries)
    /\ \A i \in Polls :
          bex[i].status = "ready"
          => /\ bpc \in {"AT+CMGF=1", "read", "returned"}
             /\ i < Len(bex) => (i + 1 = Len(bex) /\ bex[i + 1].cmd = "AT+CMGF=1")
    /\ (bpc = "wait" /\ Polls # {}) => bex[Len(bex)].status # "ready"
    /\ PollingFailed
       => \/ /\ bret.err.kind = "SIM not ready after retries"
             /\ bret.err.wraps = <<"initialize modem">>
             /\ bretries = MaxRetries + 1
             /\ Cardinality(Polls) = MaxRetries
          \/ /\ bret.err.wraps = <<"initialize modem", "SIM not ready">>
             /\ bret.err.kind = "context deadline exceeded"
             /\ bdone

\* the polling gave up: maxRetries polls, none found the SIM ready, and the
\* tick after the last one ended the waiting
C32_Witness ==
    /\ PollingFailed
    /\ Cardinality(Polls) = MaxRetries
    /\ bret.err.kind = "SIM not ready after retries"
    /\ ~bdone

\* the second poll found the SIM ready and New went on to AT+CMGF=1
C32_WitnessReady ==
    /\ Cardinality(Polls) = 2
    /\ bex[7].status = "ready"
    /\ bex[6].status = "pin"
    /\ bpc = "AT+CMGF=1"

\* the context was done and the waiting ended with its error
C32_WitnessCancel ==
    /\ PollingFailed
    /\ bret.err.wraps = <<"initialize modem", "SIM not ready">>

\* C33: a poll of waitForSIMReady that fails with ErrAlreadyClosed or
\* ErrNotInitialized is the last one: the waiting ends with "SIM status check
\* failed: " around that error. Any other poll that did not find the SIM ready,
\* failed or not, is not reported: another poll follows it, or the waiting
\* goes on, or it ends as "SIM not ready" (retries used up, context done); and
\* every poll has used up one of the maxRetries retries.
C33_PollErrors ==
    /\ \A i \in Polls :
          IF bex[i].err.kind \in Structural
              THEN /\ i = Len(bex)
                   /\ bpc = "returned"
                   /\ ~bret.modem
                   /\ bret.err.kind = bex[i].err.kind
                   /\ bret.err.wraps = <<"initialize modem", "SIM status check failed">>
          ELSE IF bex[i].status # "ready"
              THEN IF i < Len(bex) THEN IsPoll(i + 1)
                   ELSE \/ bpc \in {"wait", "poll read"}
                        \/ /\ PollingFailed
                           /\ \/ bret.err.kind = "SIM not ready after retries"
                              \/ bret.err.wraps = <<"initialize modem", "SIM not ready">>
          ELSE TRUE
    /\ Queries = (IF bretries > MaxRetries THEN MaxRetries ELSE bretries)

\* the Modem was closed: the first poll returned ErrAlreadyClosed and the
\* waiting ended at once
C33_Witness ==
    /\ Len(bex) = 6
    /\ bex[6].err.kind = "ErrAlreadyClosed"
    /\ bretries = 1
    /\ bpc = "returned"
    /\ bret.err.wraps = <<"initialize modem", "SIM status check failed">>

\* a poll ended with a read error and the next poll was written
C33_WitnessSwallowed ==
    /\ Len(bex) = 7
    /\ bex[6].err.wraps = <<"read error">>
    /\ bex[7].cmd = "AT+CPIN?"
    /\ bex[7].ok

\* a poll returned no error and a text without the ready literal, and the next
\* poll was written
C33_WitnessNotReady ==
    /\ Len(bex) = 7
    /\ bex[6].err = NoErr
    /\ bex[6].status = "pin"
    /\ bex[7].cmd = "AT+CPIN?"
    /\ bex[7].ok

\* C40: New returns in the end; when the modem says nothing in answer to a
\* command of the bring-up and the read of the Transport blocks, New returns
\* no Modem and an error once the deadline of the bring-up has passed, and has
\* closed the Transport.
C40_NewReturns ==
    (bpc \notin {"build", "new"} /\ hasTransport)
        ~> (bpc = "returned" /\ (~bret.modem => bcloses = 1))

\* the modem said nothing after AT, the deadline of the bring-up has passed,
\* and New is still in the read
C40_WitnessBlocked ==
    /\ bpc = "read"
    /\ bex = <<>>
    /\ bdone
    /\ bcloses = 0

\* C34: on a Modem made by New of a Config with the builder's AT timeout, an
\* exec whose caller's context has no deadline gets that timeout: against a
\* modem that says no Final and no Prompt line it returns in the end, with a
\* timeout error.
C34_AtTimeout ==
    \A c \in Callers :
        (cpc[c] \in {"send", "wait"} /\ cdl[c] = ExecTimed(FALSE, NewModem(BuilderConfig)))
            ~> (cpc[c] = "idle"
                /\ cret[c].err.kind \in {"command timeout",
                                          "command cancelled before sending"})

\* a command of a caller whose context has no deadline was written, the modem
\* has said all it will say, none of it a Final or Prompt line, and exec waits
C34_WitnessWaits ==
    \E c \in Callers :
        /\ cpc[c] = "wait"
        /\ ~cdl[c]
        /\ rinfo[creq[c]].by # 0
        /\ tokLeft = 0
        /\ rx = <<>>
        /\ \A l \in Loops : tokens[l] = <<>>
        /\ NoTerminal

\* no Loop is running and none will be called
LoopOver ==
    /\ loopCallsLeft = 0
    /\ \A l \in Loops : lpc[l] \in {"idle", "done"}

\* C35: an exec called when the Loop has returned, or on a Modem whose Loop is
\* never called, returns an error in the end; it does not stay in its first
\* select, on m.commands
C35_DeadLoop ==
    \A c \in Callers :
        (LoopOver /\ cpc[c] = "enter")
        ~> (cpc[c] = "idle" /\ cret[c].err.kind \notin {"nil", "none"})

\* an exec whose context has no deadline is in its first select and the Loop
\* has returned
C35_WitnessBlocked ==
    \E c \in Callers : \E l \in Loops :
        /\ LoopOver
        /\ lpc[l] = "done"
        /\ cpc[c] = "send"
        /\ ~cdl[c]

\* the same on a Modem whose Loop was never called
C35_WitnessNeverStarted ==
    \E c \in Callers :
        /\ LoopOver
        /\ \A l \in Loops : lpc[l] = "idle"
        /\ cpc[c] = "send"
        /\ ~cdl[c]
\* C36: a command that the Loop accepted while Data, Final or Prompt tokens
\* the modem had said unasked, before the command was called, waited in the
\* channel tokens gets none of them: no such token is a line of its response
\* and none ends it
C36_StaleDiscarded ==
    \A r \in Reqs :
        rinfo[r].stale > 0
        => \A i \in 1..Len(rret[r].src) : rret[r].src[i] # 0

\* an unasked token waits in the channel tokens while the Loop accepts a command
C36_WitnessQueued ==
    \E r \in Reqs : \E l \in Loops :
        /\ rinfo[r].stale > 0
        /\ cur[l] = r
        /\ Stale(tokens[l]) # <<>>
\* a call of Close has returned
CloseReturned == \E k \in Closers : kpc[k] = "done"

\* C37: once a call of Close has returned, the Modem hands no command to
\* m.transport.Write any more
C37_NoWriteAfterClose ==
    [][CloseReturned => wire' = wire]_vars

\* Close has returned while an exec that had passed the test of m.closed waits
\* in its first select, and a Loop is in its select
C37_WitnessInProgress ==
    \E c \in Callers : \E l \in Loops :
        /\ CloseReturned
        /\ closed
        /\ cpc[c] = "send"
        /\ lpc[l] = "select"
\* the scanning goroutines that are in scanner.Scan(), reading the Transport
Readers == {l \in Loops : spc[l] = "scan"}

\* C38: at every moment at most one goroutine reads the Transport, also when
\* Loop is called again after an earlier call returned
C38_OneReader == Cardinality(Readers) <= 1

\* a Loop has returned and its scanning goroutine is still in scanner.Scan()
C38_WitnessLeftBehind ==
    \E l \in Loops : lpc[l] = "done" /\ l \in Readers /\ loopCallsLeft > 0
\* C39: however the reads cut the input, the tokens the Scanner has produced,
\* followed by the tokens of what is left when it comes in one piece, are the
\* tokens of the whole input read in one piece; at the end the tokens produced
\* are those of the one piece
C39_ChunkIndependent ==
    stoks \o ScanWhole(sbuf \o srest, FALSE) = ScanWhole(Bytes(sparts, stail), FALSE)

\* a read ended between the two bytes of the prompt marker: Splitter was called
\* with ">" alone, asked for more, and the space is the next byte
C39_WitnessCutPrompt ==
    /\ slast.called
    /\ slast.data = <<">">>
    /\ ~slast.atEOF
    /\ ~slast.has
    /\ sbuf = <<">">>
    /\ srest # <<>>
    /\ Head(srest) = " "
====
